---- MODULE Spec2Model ----
(***************************************************************************)
(* Geometric core of digital-twin-house: furniture collision detection     *)
(* (getFootprint / project / sat2D / checkCollision / getCollidingIds),    *)
(* wall snapping (findNearestWall), column placement (columnEdgeCenter);   *)
(* the store (rooms, furniture, openings, selections, measurement and the  *)
(* undo history), modelled from useHouseStore.ts; and room detection on a  *)
(* floor-plan image (downscaling and analyzeFloorPlan), modelled from      *)
(* floorPlanAnalyzer.ts.                                                   *)
(*                                                                         *)
(* Numbers.  The source computes in IEEE doubles; the model computes the   *)
(* same expressions exactly, in scaled integers:                           *)
(*   - a rotation is one of four angles whose cosine and sine are exact    *)
(*     fifths (0, atan(4/3), pi/2, pi/2 + atan(4/3)); Cos5 and Sin5 give   *)
(*     5*cos and 5*sin, and sizes are even, so 5 * (footprint corner) is   *)
(*     an integer;                                                         *)
(*   - a distance is kept as its square (d < e iff d*d < e*e for d,e >= 0),*)
(*     and wall-snap coordinates are kept times 20, because the clamp      *)
(*     bounds 0.05 and 0.95 are twentieths.                                *)
(* Rounding of doubles is therefore not part of the model.                 *)
(***************************************************************************)
EXTENDS Integers, Sequences, FiniteSets, TLC

VARIABLES
    pc,            \* "idle" before the call, then the name of the function that returned
    boxA, boxB,    \* the two Furniture arguments of checkCollision
    collides,      \* its return value
    furniture,     \* the Furniture[] argument of getCollidingIds: the store's furniture
    collidingIds,  \* the returned Set<string>, as a set
    rooms,         \* the Room[] argument of findNearestWall
    cx, cy,        \* the query point
    snapDist,      \* the snapDist argument
    wallHit,       \* the returned WallHit | null
    editorHit,     \* what the editor's own findNearestWall returned
    cursor,        \* the cursor argument of columnEdgeCenter, {cx, cy}
    wall,          \* its WallHit argument
    depthPx,       \* its depthPx argument
    columnCenter,  \* the returned {canvasX, canvasY}, coordinates times 2
    image,         \* the pixels analyzeFloorPlan reads from its canvas
    canvasWidth, canvasHeight,  \* its other two arguments
    binary,        \* its Uint8Array binary
    dilated,       \* its Uint8Array dilated
    labeled,       \* its Uint8Array labeled, when the exterior fill is over
    regions,       \* the regions its component search went through
    detected,      \* the returned Room[]
    again,         \* the Room[] returned by a second call on the same image
    selectedFurnitureId, \* the store's selectedFurnitureId
    srcW, srcH,    \* the size of the image handed to analyzeFloorPlan
    scaledW, scaledH, \* w and h, the size of the grid it works on
    openings,      \* the store's openings
    selectedRoomId, selectedOpeningId,  \* the store's other two selections
    pastStates, futureStates,  \* the undo and redo stacks of the temporal store
    measureMode, measurePoints, measureHeights  \* the store's measurement state

vars == <<pc, boxA, boxB, collides, furniture, collidingIds,
          rooms, cx, cy, snapDist, wallHit, editorHit,
          cursor, wall, depthPx, columnCenter,
          image, canvasWidth, canvasHeight, binary, dilated, labeled, regions,
          detected, again, selectedFurnitureId, srcW, srcH, scaledW, scaledH,
          openings, selectedRoomId, selectedOpeningId, pastStates, futureStates,
          measureMode, measurePoints, measureHeights>>

collisionVars == <<boxA, boxB, collides, furniture, collidingIds>>
wallVars == <<rooms, cx, cy, snapDist, wallHit, editorHit>>

columnVars == <<cursor, wall, depthPx, columnCenter>>
analyzerVars == <<image, canvasWidth, canvasHeight, binary, dilated, labeled,
                  regions, detected, again>>

NULL == [null |-> TRUE]

\* the variables of a function that is not being called
ColumnIdle ==
    /\ cursor = NULL
    /\ wall = NULL
    /\ depthPx = 0
    /\ columnCenter = NULL

scaleVars == <<srcW, srcH, scaledW, scaledH>>
sessionVars == <<openings, selectedRoomId, selectedOpeningId, pastStates, futureStates>>
measureVars == <<measureMode, measurePoints, measureHeights>>

SessionIdle ==
    /\ openings = <<>>
    /\ selectedRoomId = "null"
    /\ selectedOpeningId = "null"
    /\ pastStates = <<>>
    /\ futureStates = <<>>

MeasureIdle ==
    /\ measureMode = FALSE
    /\ measurePoints = <<>>
    /\ measureHeights = <<0, 0>>

ScaleIdle == srcW = 0 /\ srcH = 0 /\ scaledW = 0 /\ scaledH = 0

StoreIdle == selectedFurnitureId = "null"

AnalyzerIdle ==
    /\ image = NULL
    /\ canvasWidth = 0
    /\ canvasHeight = 0
    /\ binary = <<>>
    /\ dilated = <<>>
    /\ labeled = <<>>
    /\ regions = <<>>
    /\ detected = <<>>
    /\ again = <<>>

(***************************************************************************)
(* Bounds of the input sets                                                *)
(***************************************************************************)
MaxPos == 3      \* box B is centred at (x, z) with x, z in 0..MaxPos
MaxElev == 3     \* elevation of box B ranges over 0..MaxElev
MaxItems == 3    \* longest furniture list given to getCollidingIds
MaxRooms == 2    \* longest room list given to findNearestWall

Abs(n) == IF n < 0 THEN -n ELSE n
SetMin(S) == CHOOSE m \in S : \A n \in S : m <= n
SetMax(S) == CHOOSE m \in S : \A n \in S : m >= n

(***************************************************************************)
(* Furniture (types/index.ts).  position and size are 3-tuples; rotation   *)
(* is the index of an angle in the table below.                            *)
(***************************************************************************)
Rotations == 0..3
\* 5*cos(rotation) and 5*sin(rotation) for the angles 0, atan(4/3), pi/2,
\* pi/2 + atan(4/3)
Cos5(rot) == CASE rot = 0 -> 5 [] rot = 1 -> 3 [] rot = 2 -> 0 [] rot = 3 -> -4
Sin5(rot) == CASE rot = 0 -> 0 [] rot = 1 -> 4 [] rot = 2 -> 5 [] rot = 3 -> 3

Furniture(id, x, z, w, h, d, rot, elev) ==
    [id |-> id, position |-> <<x, 0, z>>, size |-> <<w, h, d>>,
     rotation |-> rot, elevation |-> elev]

\* f.rotation ?? 0 and f.elevation ?? 0: a property that legacy data lacks
\* reads as undefined
RotationOf(f) == IF "rotation" \in DOMAIN f THEN f.rotation ELSE 0
ElevationOf(f) == IF "elevation" \in DOMAIN f THEN f.elevation ELSE 0

\* mutant of getFootprint: the depth offset uses the width (hd = w / 2)
getFootprintSquare(f) ==
    LET w == f.size[1]
        px == f.position[1]
        pz == f.position[3]
        rot == RotationOf(f)
        hw == w \div 2
        hd == w \div 2
        local == << <<-hw, -hd>>, <<hw, -hd>>, <<hw, hd>>, <<-hw, hd>> >>
    IN [k \in 1..4 |->
          << 5 * px + local[k][1] * Cos5(rot) - local[k][2] * Sin5(rot),
             5 * pz + local[k][1] * Sin5(rot) + local[k][2] * Cos5(rot) >>]

\* The four corners of the footprint in the XZ plane, times 5.
getFootprint(f) ==
    LET w == f.size[1]
        d == f.size[3]
        px == f.position[1]
        pz == f.position[3]
        rot == RotationOf(f)
        hw == w \div 2
        hd == d \div 2
        local == << <<-hw, -hd>>, <<hw, -hd>>, <<hw, hd>>, <<-hw, hd>> >>
    IN [k \in 1..4 |->
          << 5 * px + local[k][1] * Cos5(rot) - local[k][2] * Sin5(rot),
             5 * pz + local[k][1] * Sin5(rot) + local[k][2] * Cos5(rot) >>]

\* [min, max] of the projections of the points on the axis (nx, ny)
project(pts, nx, ny) ==
    LET dots == {pts[k][1] * nx + pts[k][2] * ny : k \in DOMAIN pts}
    IN <<SetMin(dots), SetMax(dots)>>

\* the axis test of sat2D for edge i (0-based) of poly: TRUE when the axis separates
SeparatedOn(poly, i, a, b) ==
    LET j == (i + 1) % Len(poly)
        ex == poly[j + 1][1] - poly[i + 1][1]
        ey == poly[j + 1][2] - poly[i + 1][2]
        nx == -ey
        ny == ex
        pa == project(a, nx, ny)
        pb == project(b, nx, ny)
    IN pa[2] <= pb[1] \/ pb[2] <= pa[1]

\* mutant of sat2D: only the edge normals of the first polygon are tried
sat2DFirstOnly(a, b) ==
    \A i \in 0..(Len(a) - 1) : ~SeparatedOn(a, i, a, b)

\* mutant of sat2D: touching projections count as separated only when strict
sat2DStrict(a, b) ==
    \A poly \in {a, b} : \A i \in 0..(Len(poly) - 1) :
        LET j == (i + 1) % Len(poly)
            nx == -(poly[j + 1][2] - poly[i + 1][2])
            ny == poly[j + 1][1] - poly[i + 1][1]
            pa == project(a, nx, ny)
            pb == project(b, nx, ny)
        IN ~(pa[2] < pb[1] \/ pb[2] < pa[1])

\* 2D separating-axis test: FALSE as soon as one edge normal separates
sat2D(a, b) ==
    \A poly \in {a, b} : \A i \in 0..(Len(poly) - 1) : ~SeparatedOn(poly, i, a, b)

\* mutant of checkCollision: the vertical test lets touching ranges through
checkCollisionTouchY(a, b) ==
    LET aBot == ElevationOf(a)
        aTop == aBot + a.size[2]
        bBot == ElevationOf(b)
        bTop == bBot + b.size[2]
    IN IF aBot > bTop \/ bBot > aTop THEN FALSE
       ELSE sat2D(getFootprint(a), getFootprint(b))

checkCollision(a, b) ==
    LET aBot == ElevationOf(a)
        aTop == aBot + a.size[2]
        bBot == ElevationOf(b)
        bTop == bBot + b.size[2]
    IN IF aBot >= bTop \/ bBot >= aTop THEN FALSE
       ELSE sat2D(getFootprint(a), getFootprint(b))

\* mutant of getCollidingIds: only the first item of a colliding pair is added
getCollidingIdsFirst(items) ==
    {items[i].id : i \in {i \in 1..Len(items) :
        \E j \in (i + 1)..Len(items) : checkCollision(items[i], items[j])}}

\* ids.add(furniture[i].id); ids.add(furniture[j].id) for every i < j that collide
getCollidingIds(items) ==
    UNION {{items[i].id, items[j].id} : <<i, j>> \in
        {p \in (1..Len(items)) \X (1..Len(items)) :
            p[1] < p[2] /\ checkCollision(items[p[1]], items[p[2]])}}

(***************************************************************************)
(* Wall snapping.  A Room is [id, x, y, width, height] in canvas px.  The  *)
(* snap distance is [finite, px]: a number of px, or Infinity.  A WallHit  *)
(* holds canvasX and canvasY times 20; a best distance holds the square of *)
(* 20 times the distance.                                                   *)
(***************************************************************************)
Room(id, x, y, width, height) ==
    [id |-> id, x |-> x, y |-> y, width |-> width, height |-> height]

Px(n) == [finite |-> TRUE, px |-> n]
Infinity == [finite |-> FALSE, px |-> 0]

\* the four edges of a room: top, bottom, left, right
segsOf(room) ==
    << [x1 |-> room.x, y1 |-> room.y,
        x2 |-> room.x + room.width, y2 |-> room.y, axis |-> "h"],
       [x1 |-> room.x, y1 |-> room.y + room.height,
        x2 |-> room.x + room.width, y2 |-> room.y + room.height, axis |-> "h"],
       [x1 |-> room.x, y1 |-> room.y,
        x2 |-> room.x, y2 |-> room.y + room.height, axis |-> "v"],
       [x1 |-> room.x + room.width, y1 |-> room.y,
        x2 |-> room.x + room.width, y2 |-> room.y + room.height, axis |-> "v"] >>

Min2(a, b) == IF a < b THEN a ELSE b
Max2(a, b) == IF a > b THEN a ELSE b

\* mutant of ClampT: the projection parameter is clamped to [0, 1]
ClampTWholeEdge(num, lenSq) == Max2(0, Min2(20 * lenSq, 20 * num))

\* Math.max(0.05, Math.min(0.95, num / lenSq)), times 20 * lenSq
ClampT(num, lenSq) == Max2(lenSq, Min2(19 * lenSq, 20 * num))

\* mutant of Closer: a candidate at the same distance replaces the best
CloserOrEqual(dSq, bestDist) == ~bestDist.finite \/ dSq <= bestDist.sq

\* d < bestDist, on squares
Closer(dSq, bestDist) == ~bestDist.finite \/ dSq < bestDist.sq

\* mutant of InitialBest: the search starts from Infinity, whatever snapDist
InitialBestUnbounded(snapDistArg) == [finite |-> FALSE, sq |-> 0]

\* let bestDist = snapDist
InitialBest(snapDistArg) ==
    [finite |-> snapDistArg.finite,
     sq |-> (20 * snapDistArg.px) * (20 * snapDistArg.px)]

\* mutant of visitSeg: bestDist is not lowered when a candidate is taken
visitSegKeepDist(st, seg, px0, py0) ==
    LET dx == seg.x2 - seg.x1
        dy == seg.y2 - seg.y1
        lenSq == dx * dx + dy * dy
        t == ClampT((px0 - seg.x1) * dx + (py0 - seg.y1) * dy, lenSq)
        px == 20 * seg.x1 + (t * dx) \div lenSq
        py == 20 * seg.y1 + (t * dy) \div lenSq
        dSq == (20 * px0 - px) * (20 * px0 - px) + (20 * py0 - py) * (20 * py0 - py)
    IN IF lenSq = 0 THEN st
       ELSE IF Closer(dSq, st.bestDist)
            THEN [bestDist |-> st.bestDist,
                  best |-> [canvasX |-> px, canvasY |-> py, wallAxis |-> seg.axis]]
            ELSE st

\* the body of the loop over segs, for the query point (px0, py0)
visitSeg(st, seg, px0, py0) ==
    LET dx == seg.x2 - seg.x1
        dy == seg.y2 - seg.y1
        lenSq == dx * dx + dy * dy
        t == ClampT((px0 - seg.x1) * dx + (py0 - seg.y1) * dy, lenSq)
        px == 20 * seg.x1 + (t * dx) \div lenSq
        py == 20 * seg.y1 + (t * dy) \div lenSq
        dSq == (20 * px0 - px) * (20 * px0 - px) + (20 * py0 - py) * (20 * py0 - py)
    IN IF lenSq = 0 THEN st
       ELSE IF Closer(dSq, st.bestDist)
            THEN [bestDist |-> [finite |-> TRUE, sq |-> dSq],
                  best |-> [canvasX |-> px, canvasY |-> py, wallAxis |-> seg.axis]]
            ELSE st

\* the two nested loops: rooms in list order, the four segs of each in order
RECURSIVE scanWalls(_, _, _, _, _, _)
scanWalls(roomList, r, k, st, px0, py0) ==
    IF r > Len(roomList) THEN st
    ELSE IF k > 4 THEN scanWalls(roomList, r + 1, 1, st, px0, py0)
    ELSE scanWalls(roomList, r, k + 1,
                   visitSeg(st, segsOf(roomList[r])[k], px0, py0), px0, py0)

findNearestWall(roomList, px0, py0, snapDistArg) ==
    scanWalls(roomList, 1, 1,
              [bestDist |-> InitialBest(snapDistArg), best |-> NULL], px0, py0).best

WALL_SNAP == 14      \* the editor's snap distance, px
DEFAULT_SNAP == 14   \* snapDist = 14, the default of the exported function

\* as findNearestWallEditor, but the search starts from Infinity
findNearestWallEditorUnbounded(roomList, px0, py0) ==
    scanWalls(roomList, 1, 1,
              [bestDist |-> InitialBest(Infinity), best |-> NULL], px0, py0).best

\* the editor's copies of findNearestWall: let bestDist = WALL_SNAP, then
\* the same loops, statement for statement, as the exported function
findNearestWallEditor(roomList, px0, py0) ==
    scanWalls(roomList, 1, 1,
              [bestDist |-> InitialBest(Px(WALL_SNAP)), best |-> NULL], px0, py0).best

(***************************************************************************)
(* Inputs of the collision functions                                       *)
(***************************************************************************)
\* footprint sizes (w, d); all even, so that w/2 and d/2 are integers
Shapes == {<<2, 2>>, <<4, 2>>, <<10, 2>>}

\* first argument: centred at the origin, from elevation 1, height 1 or 2
BoxesA ==
    {Furniture("a", 0, 0, s[1], h, s[2], rot, 1) :
        s \in Shapes, h \in {1, 2}, rot \in {0, 1}}

\* second argument: height 1, anywhere in the grid (and at (6, 8), where a
\* box of width 10 rotated by atan(4/3) is flush against its copy at the
\* origin), from below the first box to above it
PositionsB == ((0..MaxPos) \X (0..2)) \cup {<<6, 8>>}
BoxesB ==
    {Furniture("b", p[1], p[2], s[1], 1, s[2], rot, elev) :
        p \in PositionsB, s \in Shapes, rot \in Rotations, elev \in 0..MaxElev}

\* a small catalogue for the lists of getCollidingIds: overlapping, touching
\* and rotated boxes, a legacy item without rotation and elevation, and an
\* item whose id repeats another item's
Catalogue ==
    {Furniture("f1", 0, 0, 2, 1, 2, 0, 0),
     Furniture("f2", 1, 0, 2, 1, 2, 0, 0),
     Furniture("f3", 3, 0, 2, 1, 2, 0, 0),
     Furniture("f5", 3, 2, 4, 2, 2, 1, 0),
     [id |-> "f6", position |-> <<1, 0, 1>>, size |-> <<2, 2, 2>>],
     Furniture("f1", 3, 0, 2, 1, 2, 0, 0)}

SeqsUpTo(S, n) == UNION {[1..k -> S] : k \in 0..n}
DistinctSeqsUpTo(S, n) ==
    {q \in SeqsUpTo(S, n) : \A i, j \in 1..Len(q) : q[i] = q[j] => i = j}

FurnitureLists ==
    {<<a, b>> : a \in BoxesA, b \in BoxesB} \cup SeqsUpTo(Catalogue, MaxItems)

NoBox == Furniture("", 0, 0, 2, 1, 2, 0, 0)

InitCollision ==
    /\ pc = "idle"
    /\ furniture \in FurnitureLists
    /\ boxA = NoBox
    /\ boxB = NoBox
    /\ collides = FALSE
    /\ collidingIds = {}
    /\ rooms = <<>>
    /\ cx = 0
    /\ cy = 0
    /\ snapDist = Px(0)
    /\ wallHit = NULL
    /\ editorHit = NULL
    /\ ColumnIdle
    /\ AnalyzerIdle
    /\ StoreIdle
    /\ ScaleIdle
    /\ SessionIdle
    /\ MeasureIdle

\* a caller passes two items of the list to checkCollision
CallCheckCollision ==
    /\ pc = "idle"
    /\ \E i, j \in 1..Len(furniture) :
          /\ boxA' = furniture[i]
          /\ boxB' = furniture[j]
          /\ collides' = checkCollision(furniture[i], furniture[j])
    /\ pc' = "checkCollision"
    /\ UNCHANGED <<furniture, collidingIds>>
    /\ UNCHANGED <<wallVars, columnVars, analyzerVars, selectedFurnitureId, scaleVars, sessionVars, measureVars>>

\* as CallGetCollidingIds, but the call turns the caller's array around
CallGetCollidingIdsReversing ==
    /\ pc = "idle"
    /\ collidingIds' = getCollidingIds(furniture)
    /\ furniture' = [k \in 1..Len(furniture) |-> furniture[Len(furniture) + 1 - k]]
    /\ pc' = "getCollidingIds"
    /\ UNCHANGED <<boxA, boxB, collides>>
    /\ UNCHANGED <<wallVars, columnVars, analyzerVars, selectedFurnitureId, scaleVars, sessionVars, measureVars>>

\* Scene3D: getCollidingIds(furniture)
CallGetCollidingIds ==
    /\ pc = "idle"
    /\ collidingIds' = getCollidingIds(furniture)
    /\ pc' = "getCollidingIds"
    /\ UNCHANGED <<furniture, boxA, boxB, collides>>
    /\ UNCHANGED <<wallVars, columnVars, analyzerVars, selectedFurnitureId, scaleVars, sessionVars, measureVars>>

NextCollision == CallCheckCollision \/ CallGetCollidingIds

SpecCollision == InitCollision /\ [][NextCollision]_vars

(***************************************************************************)
(* Plane geometry used to state the collision claims.  A footprint is the  *)
(* rectangle centred at (x, z) with axes u = (cos, sin) and v = (-sin, cos)*)
(* and half extents w/2 and d/2.  Coordinates here are times 10.           *)
(***************************************************************************)
Sgn(n) == IF n > 0 THEN 1 ELSE IF n < 0 THEN -1 ELSE 0

WellTyped(f) == {"rotation", "elevation"} \subseteq DOMAIN f

\* the point centre + i*(w/2)*u + j*(d/2)*v, for i, j in {-1, 0, 1}: the
\* corners, the edge midpoints and the centre of the rectangle
RectPoint(f, i, j) ==
    << 10 * f.position[1] + i * f.size[1] * Cos5(f.rotation)
                          - j * f.size[3] * Sin5(f.rotation),
       10 * f.position[3] + i * f.size[1] * Sin5(f.rotation)
                          + j * f.size[3] * Cos5(f.rotation) >>

\* p lies in the interior of the rectangle of f
StrictlyInside(p, f) ==
    LET rx == p[1] - 10 * f.position[1]
        rz == p[2] - 10 * f.position[3]
    IN /\ Abs(rx * Cos5(f.rotation) + rz * Sin5(f.rotation)) < 25 * f.size[1]
       /\ Abs(rz * Cos5(f.rotation) - rx * Sin5(f.rotation)) < 25 * f.size[3]

Cross(o, p, q) ==
    (p[1] - o[1]) * (q[2] - o[2]) - (p[2] - o[2]) * (q[1] - o[1])

\* the segments p1-p2 and q1-q2 cross at a point interior to both
ProperCross(p1, p2, q1, q2) ==
    /\ Sgn(Cross(p1, p2, q1)) * Sgn(Cross(p1, p2, q2)) = -1
    /\ Sgn(Cross(q1, q2, p1)) * Sgn(Cross(q1, q2, p2)) = -1

CornerIdx == << <<-1, -1>>, <<1, -1>>, <<1, 1>>, <<-1, 1>> >>
RectEdge(f, k) ==
    LET k2 == (k % 4) + 1
    IN << RectPoint(f, CornerIdx[k][1], CornerIdx[k][2]),
          RectPoint(f, CornerIdx[k2][1], CornerIdx[k2][2]) >>

\* The interiors of the two footprints meet.  Each disjunct exhibits a point
\* of both interiors: a point of the closed rectangle of one box that is
\* interior to the other has interior points of both around it, and so has
\* the crossing point of two edges that cross properly.
FootprintsOverlap(a, b) ==
    \/ \E i, j \in {-1, 0, 1} : StrictlyInside(RectPoint(a, i, j), b)
    \/ \E i, j \in {-1, 0, 1} : StrictlyInside(RectPoint(b, i, j), a)
    \/ \E k, l \in 1..4 :
          ProperCross(RectEdge(a, k)[1], RectEdge(a, k)[2],
                      RectEdge(b, l)[1], RectEdge(b, l)[2])

VerticalOverlap(a, b) ==
    /\ a.elevation < b.elevation + b.size[2]
    /\ b.elevation < a.elevation + a.size[2]

\* [lo, hi] of the rectangle of f along the direction (nx, nz)
Extent(f, nx, nz) ==
    LET mid == 10 * f.position[1] * nx + 10 * f.position[3] * nz
        half == f.size[1] * Abs(Cos5(f.rotation) * nx + Sin5(f.rotation) * nz)
                + f.size[3] * Abs(Cos5(f.rotation) * nz - Sin5(f.rotation) * nx)
    IN <<mid - half, mid + half>>

\* on the normal of some edge of a or b the two footprints abut: the top of
\* one projection is the bottom of the other
Abutting(a, b) ==
    \E f \in {a, b} :
        \E n \in {<<Cos5(f.rotation), Sin5(f.rotation)>>,
                  <<-Sin5(f.rotation), Cos5(f.rotation)>>} :
            \/ Extent(a, n[1], n[2])[2] = Extent(b, n[1], n[2])[1]
            \/ Extent(b, n[1], n[2])[2] = Extent(a, n[1], n[2])[1]

SameBox(f, x, z, w, h, d, rot, elev) ==
    /\ WellTyped(f)
    /\ f.position = <<x, 0, z>> /\ f.size = <<w, h, d>>
    /\ f.rotation = rot /\ f.elevation = elev

Called == pc = "checkCollision" /\ WellTyped(boxA) /\ WellTyped(boxB)

\* C1: checkCollision is symmetric: the value returned for (a, b) is the
\* value checkCollision returns for (b, a).
Thm_C1_CollisionSymmetric ==
    pc = "checkCollision" => collides = checkCollision(boxB, boxA)

\* a call on two different boxes, one rotated and one not, that collide
Wit_C1 ==
    /\ Called /\ collides
    /\ boxA.rotation = 0 /\ boxB.rotation = 1
    /\ boxA.position # boxB.position

\* C2: checkCollision(a, b) is true exactly when the vertical ranges overlap
\* and the interiors of the two footprints meet; A at (0,0,0) and B at
\* (1,0,0), both of size (2,1,2), rotation 0 and elevation 0, collide, and
\* with B at (3,0,0) they do not.
Thm_C2_CollisionIffOverlap ==
    Called =>
        /\ collides = (VerticalOverlap(boxA, boxB) /\ FootprintsOverlap(boxA, boxB))
        /\ (SameBox(boxA, 0, 0, 2, 1, 2, 0, 0) /\ SameBox(boxB, 1, 0, 2, 1, 2, 0, 0))
               => collides
        /\ (SameBox(boxA, 0, 0, 2, 1, 2, 0, 0) /\ SameBox(boxB, 3, 0, 2, 1, 2, 0, 0))
               => ~collides

\* the first concrete scenario has been computed
Wit_C2 ==
    /\ Called /\ collides
    /\ SameBox(boxA, 0, 0, 2, 1, 2, 0, 0) /\ SameBox(boxB, 1, 0, 2, 1, 2, 0, 0)

\* C3: when the ranges [elevation, elevation + height) of the two boxes do
\* not overlap (the top of one at or below the bottom of the other),
\* checkCollision is false whatever the footprints.
Thm_C3_VerticalGating ==
    (Called /\ (\/ boxA.elevation + boxA.size[2] <= boxB.elevation
                \/ boxB.elevation + boxB.size[2] <= boxA.elevation))
        => ~collides

\* identical footprints, the top of one box at the bottom of the other
Wit_C3 ==
    /\ Called /\ ~collides
    /\ boxA.position = boxB.position /\ boxA.size = boxB.size
    /\ boxA.rotation = boxB.rotation
    /\ boxA.elevation + boxA.size[2] = boxB.elevation

\* C4: two boxes whose vertical ranges overlap and whose footprints abut on
\* the normal of one of their edges (the maximum of one projection equals the
\* minimum of the other) do not collide.
Thm_C4_TouchingIsNotColliding ==
    (Called /\ VerticalOverlap(boxA, boxB) /\ Abutting(boxA, boxB)) => ~collides

\* two rotated boxes of width 10 that share a whole edge
Wit_C4 ==
    /\ Called /\ ~collides /\ VerticalOverlap(boxA, boxB)
    /\ boxA.rotation = 1 /\ boxB.rotation = 1
    /\ boxA.size[1] = 10 /\ boxB.size[1] = 10
    /\ boxA.position = <<0, 0, 0>> /\ boxB.position = <<6, 0, 8>>
    /\ Abutting(boxA, boxB)

IndexPermutations(n) == {f \in [1..n -> 1..n] : \A i, j \in 1..n : f[i] = f[j] => i = j}
Permute(items, f) == [k \in 1..Len(items) |-> items[f[k]]]

\* the ids of the items that collide with an item at another position
InvolvedIds(items) ==
    {items[i].id : i \in {i \in 1..Len(items) :
        \E j \in 1..Len(items) : i # j /\ checkCollision(items[i], items[j])}}

\* C5: getCollidingIds returns exactly the ids of the items that collide with
\* an item at another position of the list, the same set for every
\* permutation of the list, and the empty set for a list of at most one item.
Thm_C5_CollidingIds ==
    pc = "getCollidingIds" =>
        /\ collidingIds = InvolvedIds(furniture)
        /\ \A f \in IndexPermutations(Len(furniture)) :
              getCollidingIds(Permute(furniture, f)) = collidingIds
        /\ Len(furniture) <= 1 => collidingIds = {}

\* three items: the first two collide, the third collides with neither
Wit_C5 ==
    /\ pc = "getCollidingIds" /\ Len(furniture) = 3
    /\ collidingIds = {furniture[1].id, furniture[2].id}
    /\ furniture[3].id \notin collidingIds
    /\ furniture[1].id # furniture[2].id

(***************************************************************************)
(* Inputs of findNearestWall                                               *)
(***************************************************************************)
\* the room of the spec's scenario, a room sharing its right wall, a small
\* room inside it, and a room of width 0 (its top and bottom edges have
\* length 0 and are skipped)
RoomCatalogue ==
    {Room("r1", 0, 0, 100, 100),
     Room("r2", 100, 0, 100, 60),
     Room("r3", 20, 20, 40, 20),
     Room("r4", 0, 0, 0, 40)}

\* lists of different rooms
RoomLists == DistinctSeqsUpTo(RoomCatalogue, MaxRooms)
Coords == {-10, 0, 2, 5, 30, 50, 60, 98, 100, 114}
SnapDists == {Px(0), Px(2), Px(5), Px(14), Px(50), Infinity}

InitWall ==
    /\ pc = "idle"
    /\ rooms \in RoomLists
    /\ cx \in Coords
    /\ cy \in Coords
    /\ snapDist \in SnapDists
    /\ wallHit = NULL
    /\ editorHit = NULL
    /\ furniture = <<>>
    /\ boxA = NoBox
    /\ boxB = NoBox
    /\ collides = FALSE
    /\ collidingIds = {}
    /\ ColumnIdle
    /\ AnalyzerIdle
    /\ StoreIdle
    /\ ScaleIdle
    /\ SessionIdle
    /\ MeasureIdle

\* FloorPlanEditor: findNearestWall(rooms, x, y, snapDist)
CallFindNearestWall ==
    /\ pc = "idle"
    /\ wallHit' = findNearestWall(rooms, cx, cy, snapDist)
    /\ pc' = "findNearestWall"
    /\ UNCHANGED <<rooms, cx, cy, snapDist, editorHit>>
    /\ UNCHANGED <<collisionVars, columnVars, analyzerVars, selectedFurnitureId, scaleVars, sessionVars, measureVars>>

\* FloorPlanEditor: its own findNearestWall(rooms, x, y), here called on
\* the same rooms and point after the exported one
CallEditorFindNearestWall ==
    /\ pc = "findNearestWall"
    /\ editorHit' = findNearestWallEditor(rooms, cx, cy)
    /\ pc' = "editorFindNearestWall"
    /\ UNCHANGED <<rooms, cx, cy, snapDist, wallHit>>
    /\ UNCHANGED <<collisionVars, columnVars, analyzerVars, selectedFurnitureId, scaleVars, sessionVars, measureVars>>

NextWall == CallFindNearestWall \/ CallEditorFindNearestWall

SpecWall == InitWall /\ [][NextWall]_vars

CollisionIdle ==
    /\ furniture = <<>>
    /\ boxA = NoBox
    /\ boxB = NoBox
    /\ collides = FALSE
    /\ collidingIds = {}

WallIdle ==
    /\ rooms = <<>>
    /\ cx = 0
    /\ cy = 0
    /\ snapDist = Px(0)
    /\ wallHit = NULL
    /\ editorHit = NULL

(***************************************************************************)
(* Column placement (columnEdgeCenter).  The arguments are in canvas px;   *)
(* the returned centre is kept times 2, because the offset is depthPx / 2. *)
(***************************************************************************)
Cursor(x, y) == [cx |-> x, cy |-> y]
WallHit(x, y, axis) == [canvasX |-> x, canvasY |-> y, wallAxis |-> axis]

\* as columnEdgeCenter, but a cursor on the wall line goes to the negative side
columnEdgeCenterStrict(cursorArg, wallArg, depthArg) ==
    LET dh2 == depthArg
    IN  IF wallArg.wallAxis = "h"
        THEN LET offsetY2 == IF cursorArg.cy > wallArg.canvasY THEN dh2 ELSE -dh2
             IN  [canvasX |-> 2 * wallArg.canvasX,
                  canvasY |-> 2 * wallArg.canvasY + offsetY2]
        ELSE LET offsetX2 == IF cursorArg.cx > wallArg.canvasX THEN dh2 ELSE -dh2
             IN  [canvasX |-> 2 * wallArg.canvasX + offsetX2,
                  canvasY |-> 2 * wallArg.canvasY]

\* dh2 is 2 * dh = depthPx
columnEdgeCenter(cursorArg, wallArg, depthArg) ==
    LET dh2 == depthArg
    IN  IF wallArg.wallAxis = "h"
        THEN LET offsetY2 == IF cursorArg.cy >= wallArg.canvasY THEN dh2 ELSE -dh2
             IN  [canvasX |-> 2 * wallArg.canvasX,
                  canvasY |-> 2 * wallArg.canvasY + offsetY2]
        ELSE LET offsetX2 == IF cursorArg.cx >= wallArg.canvasX THEN dh2 ELSE -dh2
             IN  [canvasX |-> 2 * wallArg.canvasX + offsetX2,
                  canvasY |-> 2 * wallArg.canvasY]

ColumnCoords == {0, 10, 25}
ColumnDepths == {1, 6, 30}
Cursors == {Cursor(x, y) : x \in ColumnCoords, y \in ColumnCoords}
WallHits == {WallHit(x, y, axis) : x \in ColumnCoords, y \in ColumnCoords,
                                   axis \in {"h", "v"}}

InitColumn ==
    /\ pc = "idle"
    /\ cursor \in Cursors
    /\ wall \in WallHits
    /\ depthPx \in ColumnDepths
    /\ columnCenter = NULL
    /\ CollisionIdle
    /\ WallIdle
    /\ AnalyzerIdle
    /\ StoreIdle
    /\ ScaleIdle
    /\ SessionIdle
    /\ MeasureIdle

CallColumnEdgeCenter ==
    /\ pc = "idle"
    /\ columnCenter' = columnEdgeCenter(cursor, wall, depthPx)
    /\ pc' = "columnEdgeCenter"
    /\ UNCHANGED <<cursor, wall, depthPx>>
    /\ UNCHANGED <<collisionVars, wallVars, analyzerVars, selectedFurnitureId, scaleVars, sessionVars, measureVars>>

NextColumn == CallColumnEdgeCenter

SpecColumn == InitColumn /\ [][NextColumn]_vars

(***************************************************************************)
(* The four core functions together: a run starts with the arguments of    *)
(* one of them and makes any call whose arguments are there.               *)
(***************************************************************************)
InitCore == InitCollision \/ InitWall \/ InitColumn

NextCore ==
    \/ NextCollision
    \/ NextWall
    \/ (cursor # NULL /\ NextColumn)

SpecCore == InitCore /\ [][NextCore]_vars

(***************************************************************************)
(* Geometry used to state the wall-snap claims.  An edge of a room is      *)
(* [axis, fixed, lo, len]: a horizontal edge lies on y = fixed from        *)
(* x = lo to x = lo + len, a vertical one on x = fixed from y = lo.        *)
(***************************************************************************)
EdgesOf(room) ==
    << [axis |-> "h", fixed |-> room.y, lo |-> room.x, len |-> room.width],
       [axis |-> "h", fixed |-> room.y + room.height, lo |-> room.x, len |-> room.width],
       [axis |-> "v", fixed |-> room.x, lo |-> room.y, len |-> room.height],
       [axis |-> "v", fixed |-> room.x + room.width, lo |-> room.y, len |-> room.height] >>

\* the edges with a candidate, in scan order
ScanOrder(roomList) ==
    {<<r, k>> \in (1..Len(roomList)) \X (1..4) : EdgesOf(roomList[r])[k].len # 0}

Before(p, q) == p[1] < q[1] \/ (p[1] = q[1] /\ p[2] < q[2])

\* the point of the edge nearest to (px0, py0) among those at a fraction
\* 0.05 <= t <= 0.95 of its length (len > 0), times 20, with the edge's axis
EdgeCandidate(e, px0, py0) ==
    LET along == Max2(20 * e.lo + e.len,
                      Min2(20 * e.lo + 19 * e.len,
                           20 * (IF e.axis = "h" THEN px0 ELSE py0)))
    IN IF e.axis = "h"
       THEN [canvasX |-> along, canvasY |-> 20 * e.fixed, wallAxis |-> "h"]
       ELSE [canvasX |-> 20 * e.fixed, canvasY |-> along, wallAxis |-> "v"]

\* squared distance from (px0, py0) to a hit, times 400
DistSq(hit, px0, py0) ==
    (20 * px0 - hit.canvasX) * (20 * px0 - hit.canvasX)
    + (20 * py0 - hit.canvasY) * (20 * py0 - hit.canvasY)

CandidateAt(roomList, p, px0, py0) == EdgeCandidate(EdgesOf(roomList[p[1]])[p[2]], px0, py0)
CandDistSq(roomList, p, px0, py0) == DistSq(CandidateAt(roomList, p, px0, py0), px0, py0)

\* the first edge in scan order among those whose candidate is nearest
NearestEdge(roomList, px0, py0) ==
    CHOOSE p \in ScanOrder(roomList) :
        \A q \in ScanOrder(roomList) :
            \/ CandDistSq(roomList, p, px0, py0) < CandDistSq(roomList, q, px0, py0)
            \/ /\ CandDistSq(roomList, p, px0, py0) = CandDistSq(roomList, q, px0, py0)
               /\ (p = q \/ Before(p, q))

SnapSq(sd) == (20 * sd.px) * (20 * sd.px)
\* d < maxDistance, d <= maxDistance and d = maxDistance on squares
Within(dSq, sd) == ~sd.finite \/ dSq <= SnapSq(sd)
StrictlyWithin(dSq, sd) == ~sd.finite \/ dSq < SnapSq(sd)
SnapLeq(s1, s2) == ~s2.finite \/ (s1.finite /\ s1.px <= s2.px)

Returned == pc = "findNearestWall"

\* C6: findNearestWall returns null whenever no edge has its candidate
\* within maxDistance of the point; in particular for an empty room list.
Thm_C6_NullWhenOutOfRange ==
    (Returned /\ \A p \in ScanOrder(rooms) : ~Within(CandDistSq(rooms, p, cx, cy), snapDist))
        => wallHit = NULL

\* a call with rooms, all of them out of range, has returned null
Wit_C6 ==
    /\ Returned /\ wallHit = NULL /\ ScanOrder(rooms) # {}
    /\ \A p \in ScanOrder(rooms) : ~Within(CandDistSq(rooms, p, cx, cy), snapDist)

\* a call on the empty room list has returned null for Infinity
Wit_C6_Empty ==
    Returned /\ wallHit = NULL /\ rooms = <<>> /\ ~snapDist.finite

\* C7: a returned hit is the candidate (point and axis) of the first edge
\* in scan order among the edges at minimum distance; for the room
\* (0, 0, 100, 100), the point (50, 2) and maxDistance 14 it is (50, 0) on a
\* horizontal wall.
Thm_C7_NearestFirstWins ==
    Returned =>
        /\ wallHit # NULL =>
              /\ ScanOrder(rooms) # {}
              /\ wallHit = CandidateAt(rooms, NearestEdge(rooms, cx, cy), cx, cy)
        /\ (rooms = <<Room("r1", 0, 0, 100, 100)>> /\ cx = 50 /\ cy = 2
                /\ snapDist = Px(14))
              => wallHit = [canvasX |-> 20 * 50, canvasY |-> 0, wallAxis |-> "h"]

\* a hit was returned where two edges of different axes tie for the minimum
Wit_C7 ==
    /\ Returned /\ wallHit # NULL
    /\ \E p, q \in ScanOrder(rooms) :
          /\ Before(p, q)
          /\ CandDistSq(rooms, p, cx, cy) = DistSq(wallHit, cx, cy)
          /\ CandDistSq(rooms, q, cx, cy) = DistSq(wallHit, cx, cy)
          /\ CandidateAt(rooms, q, cx, cy) # CandidateAt(rooms, p, cx, cy)

\* the concrete scenario has been computed
Wit_C7_Scenario ==
    /\ Returned /\ rooms = <<Room("r1", 0, 0, 100, 100)>>
    /\ cx = 50 /\ cy = 2 /\ snapDist = Px(14)
    /\ wallHit = [canvasX |-> 1000, canvasY |-> 0, wallAxis |-> "h"]

PositiveRooms == \A r \in 1..Len(rooms) : rooms[r].width > 0 /\ rooms[r].height > 0

\* hit lies on edge e at a fraction 0.05 <= t <= 0.95 of its length
OnEdgeInside(hit, e) ==
    /\ hit.wallAxis = e.axis
    /\ (IF e.axis = "h" THEN hit.canvasY ELSE hit.canvasX) = 20 * e.fixed
    /\ 20 * e.lo + e.len <= (IF e.axis = "h" THEN hit.canvasX ELSE hit.canvasY)
    /\ (IF e.axis = "h" THEN hit.canvasX ELSE hit.canvasY) <= 20 * e.lo + 19 * e.len

\* hit is one of the four corners of room
IsCornerOf(hit, room) ==
    /\ hit.canvasX \in {20 * room.x, 20 * (room.x + room.width)}
    /\ hit.canvasY \in {20 * room.y, 20 * (room.y + room.height)}

\* C8 as stated: with positive widths and heights, a returned hit is never a
\* corner of a room of the list.
Orig_C8_NeverARoomCorner ==
    (Returned /\ PositiveRooms /\ wallHit # NULL)
        => \A r \in 1..Len(rooms) : ~IsCornerOf(wallHit, rooms[r])

\* C8, amended: with positive widths and heights, a returned hit lies on an
\* edge of a room of the list at a fraction 0.05 <= t <= 0.95 of that edge's
\* length, so it is not a corner of that room.
Thm_C8_CornerOfOwnRoomExcluded ==
    (Returned /\ PositiveRooms /\ wallHit # NULL)
        => \E r \in 1..Len(rooms) :
              /\ \E k \in 1..4 : OnEdgeInside(wallHit, EdgesOf(rooms[r])[k])
              /\ ~IsCornerOf(wallHit, rooms[r])

\* the query point is a corner of the only room, and a hit was returned
Wit_C8 ==
    /\ Returned /\ PositiveRooms /\ wallHit # NULL /\ Len(rooms) = 1
    /\ IsCornerOf([canvasX |-> 20 * cx, canvasY |-> 20 * cy], rooms[1])

MinCandDistSq == CandDistSq(rooms, NearestEdge(rooms, cx, cy), cx, cy)

\* C9 as stated: a hit is returned when the minimum candidate distance is at
\* most maxDistance, and null when it is greater.
Orig_C9_HitIffWithin ==
    (Returned /\ ScanOrder(rooms) # {})
        => (wallHit # NULL <=> Within(MinCandDistSq, snapDist))

\* C9, amended: a hit is returned exactly when the minimum candidate
\* distance is strictly less than maxDistance; at exactly maxDistance, and
\* beyond, the result is null.
Thm_C9_HitIffStrictlyWithin ==
    (Returned /\ ScanOrder(rooms) # {})
        => (wallHit # NULL <=> StrictlyWithin(MinCandDistSq, snapDist))

\* the nearest candidate is at exactly maxDistance > 0 and null was returned
Wit_C9 ==
    /\ Returned /\ ScanOrder(rooms) # {} /\ snapDist.finite /\ snapDist.px > 0
    /\ MinCandDistSq = SnapSq(snapDist)
    /\ wallHit = NULL

\* C10: once a hit is returned for maxDistance d1, every d2 >= d1 returns
\* the same hit, and every maxDistance smaller than the distance from the
\* point to that hit returns null.
Thm_C10_Monotonic ==
    (Returned /\ wallHit # NULL) =>
        \A d \in SnapDists :
            /\ SnapLeq(snapDist, d) => findNearestWall(rooms, cx, cy, d) = wallHit
            /\ (d.finite /\ SnapSq(d) < DistSq(wallHit, cx, cy))
                  => findNearestWall(rooms, cx, cy, d) = NULL

\* a hit at a positive distance, with a larger and a smaller maxDistance
Wit_C10 ==
    /\ Returned /\ wallHit # NULL /\ snapDist.finite
    /\ \E d \in SnapDists : d.finite /\ d.px > snapDist.px
    /\ \E d \in SnapDists : d.finite /\ SnapSq(d) < DistSq(wallHit, cx, cy)
    /\ Len(rooms) = 2

(***************************************************************************)
(* Floor-plan analysis (analyzeFloorPlan, floorPlanAnalyzer.ts).  An image *)
(* is [width, height, data], data[y * width + x] the <<r, g, b>> of pixel  *)
(* (x, y); the images drawn here are at most MAX_SIZE wide and high, so    *)
(* step 0 keeps their size (scale = 1).  A label grid is a function on     *)
(* 0..w*h-1, as the Uint8Arrays of the source.                             *)
(*                                                                         *)
(* Numbers.  The luma is kept times 1000 (0.299, 0.587 and 0.114 are       *)
(* thousandths), MIN_AREA_RATIO is kept in thousandths and the polarity    *)
(* limit 0.3 in tenths.  A returned room holds x and width times w and y   *)
(* and height times h (x is minX * canvasWidth / w in the source).  The    *)
(* name of a room is [prefix, n] for the template string prefix + n; the   *)
(* prefix is the two characters U+90E8 U+5C4B in the source.               *)
(***************************************************************************)
ROOM_COLORS == <<"#4a90d9", "#7ed321", "#f5a623", "#d0021b",
                 "#9013fe", "#50e3c2", "#b8e986", "#f8e71c">>
MAX_SIZE == 400
WALL_THRESHOLD == 200
DILATE_RADIUS == 6
MIN_AREA_RATIO_1000 == 8
OPEN == 1
WALL == 0
EXTERIOR == 2
\* the limit 0.3 of the polarity test, in tenths
POLARITY_LIMIT_10 == 3
NAME_PREFIX == "u90e8u5c4b"

Pixels(w, h) == 0..(w * h - 1)

\* 1000 * (0.299 r + 0.587 g + 0.114 b)
Gray1000(rgb) == 299 * rgb[1] + 587 * rgb[2] + 114 * rgb[3]

\* step 1: gray >= WALL_THRESHOLD ? OPEN : WALL
binarize(data, w, h) ==
    [i \in Pixels(w, h) |->
        IF Gray1000(data[i]) >= 1000 * WALL_THRESHOLD THEN OPEN ELSE WALL]

\* as detectPolarity, but a grid with exactly 30% Open pixels is flipped too
detectPolarityInclusive(bin, w, h) ==
    LET openCount == Cardinality({i \in Pixels(w, h) : bin[i] = OPEN})
    IN  IF 10 * openCount <= w * h * POLARITY_LIMIT_10
        THEN [i \in Pixels(w, h) |-> IF bin[i] = OPEN THEN WALL ELSE OPEN]
        ELSE bin

\* as detectPolarity, but the grid is never flipped
detectPolarityOff(bin, w, h) == bin

\* if (openCount < w * h * 0.3) every pixel is flipped
detectPolarity(bin, w, h) ==
    LET openCount == Cardinality({i \in Pixels(w, h) : bin[i] = OPEN})
    IN  IF 10 * openCount < w * h * POLARITY_LIMIT_10
        THEN [i \in Pixels(w, h) |-> IF bin[i] = OPEN THEN WALL ELSE OPEN]
        ELSE bin

\* as dilateWalls, but a WALL pixel paints the diamond of the given radius
dilateWallsDiamond(src, w, h, radius) ==
    LET Painted(x, y) ==
            {ny * w + nx : ny \in Max2(0, y - radius)..Min2(h - 1, y + radius),
                           nx \in Max2(0, x - radius)..Min2(w - 1, x + radius)}
        painted == UNION {{j \in Painted(i % w, i \div w) :
                              Abs((j % w) - (i % w)) + Abs((j \div w) - (i \div w)) <= radius} :
                             i \in {j \in Pixels(w, h) : src[j] = WALL}}
    IN  [i \in Pixels(w, h) |-> IF i \in painted THEN WALL ELSE src[i]]

\* as dilateWalls, but nothing is painted
dilateWallsNone(src, w, h, radius) == src

\* every WALL pixel of src paints WALL over the square of the given radius
\* around it, clipped to the grid
dilateWalls(src, w, h, radius) ==
    LET Painted(x, y) ==
            {ny * w + nx : ny \in Max2(0, y - radius)..Min2(h - 1, y + radius),
                           nx \in Max2(0, x - radius)..Min2(w - 1, x + radius)}
        painted == UNION {Painted(i % w, i \div w) :
                             i \in {j \in Pixels(w, h) : src[j] = WALL}}
    IN  [i \in Pixels(w, h) |-> IF i \in painted THEN WALL ELSE src[i]]

\* the four neighbours and the four diagonal ones
NeighboursDiagonal ==
    <<<<-1, 0>>, <<1, 0>>, <<0, -1>>, <<0, 1>>,
      <<-1, -1>>, <<1, -1>>, <<-1, 1>>, <<1, 1>>>>

\* [[-1, 0], [1, 0], [0, -1], [0, 1]]
Neighbours == <<<<-1, 0>>, <<1, 0>>, <<0, -1>>, <<0, 1>>>>

\* as EdgeOrder, but only the first seeding loop: the top and bottom rows
EdgeOrderRows(w, h) ==
    [k \in 1..(2 * w) |-> ((IF k % 2 = 1 THEN 0 ELSE h - 1) * w) + (k - 1) \div 2]

\* the border pixels in the order of the two seeding loops: (x, 0) and
\* (x, h-1) for each x, then (0, y) and (w-1, y) for each y in 1..h-2
EdgeOrder(w, h) ==
    LET rows == [k \in 1..(2 * w) |->
                    ((IF k % 2 = 1 THEN 0 ELSE h - 1) * w) + (k - 1) \div 2]
        cols == [k \in 1..(2 * Max2(h - 2, 0)) |->
                    ((1 + (k - 1) \div 2) * w) + (IF k % 2 = 1 THEN 0 ELSE w - 1)]
    IN  rows \o cols

\* enqueueEdge over EdgeOrder: a border pixel that is OPEN is marked
\* EXTERIOR and pushed, so a pixel that comes twice is pushed once
seedExterior(dil, w, h) ==
    LET edges == EdgeOrder(w, h)
        first == {k \in 1..Len(edges) : \A j \in 1..(k - 1) : edges[j] # edges[k]}
        Pushed(idx) == idx >= 0 /\ dil[idx] = OPEN
        queue == SelectSeq([k \in 1..Len(edges) |->
                               IF k \in first THEN edges[k] ELSE -1], Pushed)
        seeds == {queue[n] : n \in 1..Len(queue)}
    IN  [labeled |-> [i \in Pixels(w, h) |->
                         IF i \in seeds THEN EXTERIOR ELSE dil[i]],
         queue |-> queue, head |-> 1]

\* as floodNeighbours, but an OPEN neighbour is pushed as it is and becomes
\* EXTERIOR only when it is taken from the queue
RECURSIVE floodNeighboursLate(_, _, _, _, _, _, _)
floodNeighboursLate(st, nbrs, k, cx0, cy0, w, h) ==
    IF k > Len(nbrs) THEN st
    ELSE LET nx == cx0 + nbrs[k][1]
             ny == cy0 + nbrs[k][2]
             nidx == ny * w + nx
             here == [st EXCEPT !.labeled[cy0 * w + cx0] = EXTERIOR]
             next == IF nx < 0 \/ nx >= w \/ ny < 0 \/ ny >= h THEN here
                     ELSE IF here.labeled[nidx] = OPEN
                          THEN [here EXCEPT !.queue = Append(@, nidx)]
                          ELSE here
         IN  floodNeighboursLate(next, nbrs, k + 1, cx0, cy0, w, h)

\* the for loop over the neighbours of (cx0, cy0), from the k-th on
RECURSIVE floodNeighbours(_, _, _, _, _, _, _)
floodNeighbours(st, nbrs, k, cx0, cy0, w, h) ==
    IF k > Len(nbrs) THEN st
    ELSE LET nx == cx0 + nbrs[k][1]
             ny == cy0 + nbrs[k][2]
             nidx == ny * w + nx
             next == IF nx < 0 \/ nx >= w \/ ny < 0 \/ ny >= h THEN st
                     ELSE IF st.labeled[nidx] = OPEN
                          THEN [st EXCEPT !.labeled[nidx] = EXTERIOR,
                                          !.queue = Append(@, nidx)]
                          ELSE st
         IN  floodNeighbours(next, nbrs, k + 1, cx0, cy0, w, h)

\* one turn of while (head < queue.length)
floodStep(st, nbrs, w, h) ==
    IF st.head > Len(st.queue) THEN st
    ELSE LET curr == st.queue[st.head]
             popped == [st EXCEPT !.head = @ + 1]
         IN  floodNeighbours(popped, nbrs, 1, curr % w, curr \div w, w, h)

\* up to n turns of the loop; the turns are split in halves to keep the
\* evaluation shallow
RECURSIVE floodRepeat(_, _, _, _, _)
floodRepeat(st, nbrs, n, w, h) ==
    IF n = 0 \/ st.head > Len(st.queue) THEN st
    ELSE IF n = 1 THEN floodStep(st, nbrs, w, h)
    ELSE floodRepeat(floodRepeat(st, nbrs, n \div 2, w, h), nbrs,
                     n - n \div 2, w, h)

RECURSIVE floodLoop(_, _, _, _)
floodLoop(st, nbrs, w, h) ==
    IF st.head > Len(st.queue) THEN st
    ELSE floodLoop(floodRepeat(st, nbrs, w * h, w, h), nbrs, w, h)

\* as floodExterior, but the queue is never processed
floodExteriorSeedsOnly(dil, w, h, nbrs) == seedExterior(dil, w, h)

\* step 3: [labeled, queue, head] when the loop ends
floodExterior(dil, w, h, nbrs) == floodLoop(seedExterior(dil, w, h), nbrs, w, h)

\* a region is [visited, regionQueue, qHead, minX, maxX, minY, maxY, area]
RECURSIVE regionNeighbours(_, _, _, _, _, _, _, _)
regionNeighbours(rg, lab, nbrs, k, cx0, cy0, w, h) ==
    IF k > Len(nbrs) THEN rg
    ELSE LET nx == cx0 + nbrs[k][1]
             ny == cy0 + nbrs[k][2]
             nidx == ny * w + nx
             next == IF nx < 0 \/ nx >= w \/ ny < 0 \/ ny >= h THEN rg
                     ELSE IF lab[nidx] = OPEN /\ rg.visited[nidx] = 0
                          THEN [rg EXCEPT !.visited[nidx] = 1,
                                          !.regionQueue = Append(@, nidx)]
                          ELSE rg
         IN  regionNeighbours(next, lab, nbrs, k + 1, cx0, cy0, w, h)

\* one turn of while (qHead < regionQueue.length)
regionStep(rg, lab, nbrs, w, h) ==
    IF rg.qHead > Len(rg.regionQueue) THEN rg
    ELSE LET curr == rg.regionQueue[rg.qHead]
             cx0 == curr % w
             cy0 == curr \div w
             counted == [rg EXCEPT !.qHead = @ + 1,
                                   !.area = @ + 1,
                                   !.minX = IF cx0 < @ THEN cx0 ELSE @,
                                   !.maxX = IF cx0 > @ THEN cx0 ELSE @,
                                   !.minY = IF cy0 < @ THEN cy0 ELSE @,
                                   !.maxY = IF cy0 > @ THEN cy0 ELSE @]
         IN  regionNeighbours(counted, lab, nbrs, 1, cx0, cy0, w, h)

RECURSIVE regionRepeat(_, _, _, _, _, _)
regionRepeat(rg, lab, nbrs, n, w, h) ==
    IF n = 0 \/ rg.qHead > Len(rg.regionQueue) THEN rg
    ELSE IF n = 1 THEN regionStep(rg, lab, nbrs, w, h)
    ELSE regionRepeat(regionRepeat(rg, lab, nbrs, n \div 2, w, h), lab, nbrs,
                      n - n \div 2, w, h)

RECURSIVE regionLoop(_, _, _, _, _)
regionLoop(rg, lab, nbrs, w, h) ==
    IF rg.qHead > Len(rg.regionQueue) THEN rg
    ELSE regionLoop(regionRepeat(rg, lab, nbrs, w * h, w, h), lab, nbrs, w, h)

\* as belowMinArea, but no component is discarded
belowMinAreaNever(area, w, h) == FALSE

\* area < minArea, minArea = w * h * MIN_AREA_RATIO
belowMinArea(area, w, h) == 1000 * area < w * h * MIN_AREA_RATIO_1000

\* the room pushed for a region, without its id; n is rooms.length
\* as roomOf, but the colours do not start again after the last one
roomOfLastColour(rg, n, colorIdx, w, h, cw, ch) ==
    [name |-> [prefix |-> NAME_PREFIX, n |-> n + 1],
     x |-> rg.minX * cw,
     y |-> rg.minY * ch,
     width |-> (rg.maxX - rg.minX) * cw,
     height |-> (rg.maxY - rg.minY) * ch,
     color |-> ROOM_COLORS[Min2(colorIdx, Len(ROOM_COLORS) - 1) + 1]]

roomOf(rg, n, colorIdx, w, h, cw, ch) ==
    [name |-> [prefix |-> NAME_PREFIX, n |-> n + 1],
     x |-> rg.minX * cw,
     y |-> rg.minY * ch,
     width |-> (rg.maxX - rg.minX) * cw,
     height |-> (rg.maxY - rg.minY) * ch,
     color |-> ROOM_COLORS[(colorIdx % Len(ROOM_COLORS)) + 1]]

\* step 4, from start position `from` on (positions are y * w + x, so the
\* two for loops visit them in increasing order).  sc is [visited, rooms,
\* colorIdx, regions]; regions records, for every region searched, its
\* start, area, queue and box, whether or not a room was pushed for it.
RECURSIVE scanRooms(_, _, _, _, _, _, _, _)
scanRooms(sc, lab, nbrs, from, w, h, cw, ch) ==
    LET starts == {i \in Pixels(w, h) :
                      /\ i >= from
                      /\ i % w >= 1 /\ i % w < w - 1
                      /\ i \div w >= 1 /\ i \div w < h - 1
                      /\ lab[i] = OPEN /\ sc.visited[i] = 0}
    IN  IF starts = {} THEN sc
        ELSE LET startIdx == SetMin(starts)
                 startX == startIdx % w
                 startY == startIdx \div w
                 rg == regionLoop([visited |-> [sc.visited EXCEPT ![startIdx] = 1],
                                   regionQueue |-> <<startIdx>>,
                                   qHead |-> 1,
                                   minX |-> startX, maxX |-> startX,
                                   minY |-> startY, maxY |-> startY,
                                   area |-> 0], lab, nbrs, w, h)
                 found == [start |-> startIdx, area |-> rg.area,
                           queue |-> rg.regionQueue,
                           minX |-> rg.minX, maxX |-> rg.maxX,
                           minY |-> rg.minY, maxY |-> rg.maxY]
                 skipped == [sc EXCEPT !.visited = rg.visited,
                                       !.regions = Append(@, found)]
                 pushed == [skipped EXCEPT
                              !.rooms = Append(@, roomOf(rg, Len(sc.rooms), sc.colorIdx,
                                                         w, h, cw, ch)),
                              !.colorIdx = @ + 1]
             IN  scanRooms(IF belowMinArea(rg.area, w, h) THEN skipped ELSE pushed,
                           lab, nbrs, startIdx + 1, w, h, cw, ch)

findRooms(lab, nbrs, w, h, cw, ch) ==
    scanRooms([visited |-> [i \in Pixels(w, h) |-> 0], rooms |-> <<>>,
               colorIdx |-> 0, regions |-> <<>>],
              lab, nbrs, 0, w, h, cw, ch)

\* steps 1 to 4 with the neighbours visited in the order nbrs; the rooms
\* are without their ids
analyzeWith(nbrs, img, cw, ch) ==
    LET w == img.width
        h == img.height
        bin == detectPolarity(binarize(img.data, w, h), w, h)
        dil == dilateWalls(bin, w, h, DILATE_RADIUS)
        lab == floodExterior(dil, w, h, nbrs).labeled
    IN  findRooms(lab, nbrs, w, h, cw, ch).rooms

analyzeFloorPlan(img, cw, ch) ==
    analyzeWith(Neighbours, img, cw, ch)

\* as withIds, but the rooms come out in the order of their ids
withIdsSorted(roomList, ids) ==
    LET n == Len(roomList)
        rank(k) == Cardinality({j \in 1..n : ids[j] < ids[k]}) + 1
    IN  [p \in 1..n |->
            LET k == CHOOSE j \in 1..n : rank(j) = p
            IN  [id |-> ids[k]] @@ roomList[k]]

\* id: crypto.randomUUID() for each room pushed
withIds(roomList, ids) ==
    [k \in 1..Len(roomList) |-> [id |-> ids[k]] @@ roomList[k]]

(***************************************************************************)
(* Inputs of analyzeFloorPlan: drawings of floor plans.  A plan paints the *)
(* rectangles `ink` (<<x0, y0, x1, y1>>, inclusive) in inkColor on a       *)
(* paperColor sheet, except inside the rectangles `erase`.                 *)
(***************************************************************************)
White == <<255, 255, 255>>
Black == <<0, 0, 0>>
Gray == <<128, 128, 128>>
Silver == <<200, 200, 200>>

InRect(x, y, r) == x >= r[1] /\ x <= r[3] /\ y >= r[2] /\ y <= r[4]

Plan(w, h, ink, erase, inkColor, paperColor) ==
    [w |-> w, h |-> h, ink |-> ink, erase |-> erase,
     inkColor |-> inkColor, paperColor |-> paperColor]

Draw(p) ==
    [width |-> p.w, height |-> p.h,
     data |-> [i \in Pixels(p.w, p.h) |->
                 IF /\ \E r \in p.ink : InRect(i % p.w, i \div p.w, r)
                    /\ ~ \E r \in p.erase : InRect(i % p.w, i \div p.w, r)
                 THEN p.inkColor ELSE p.paperColor]]

\* the exact colour inversion: every channel c becomes 255 - c
Invert(img) ==
    [img EXCEPT !.data = [i \in DOMAIN img.data |->
                             <<255 - img.data[i][1], 255 - img.data[i][2],
                               255 - img.data[i][3]>>]]

\* a frame of thickness t along the sides of the rectangle (x0, y0)-(x1, y1)
Frame(x0, y0, x1, y1, t) ==
    {<<x0, y0, x1, y0 + t - 1>>, <<x0, y1 - t + 1, x1, y1>>,
     <<x0, y0, x0 + t - 1, y1>>, <<x1 - t + 1, y0, x1, y1>>}

\* 50x50, white, a 4 px black border with a 10 px gap
LeakGaps == {<<20, 0, 29, 3>>, <<0, 4, 3, 13>>}
LeakPlan(gap) == Plan(50, 50, Frame(0, 0, 49, 49, 4), {gap}, Black, White)
\* a 1 px border around a sheet that dilation leaves one pixel column, one
\* pixel row or one pixel of
ColumnPlan == Plan(15, 20, Frame(0, 0, 14, 19, 1), {}, Black, White)
RowPlan == Plan(20, 15, Frame(0, 0, 19, 14, 1), {}, Black, White)
SpeckPlan == Plan(15, 15, Frame(0, 0, 14, 14, 1), {}, Black, White)
GrayPlan == Plan(15, 20, Frame(0, 0, 14, 19, 1), {}, Gray, White)
\* two rooms side by side with a door in the wall between them; the right
\* room is b pixels wide after dilation
TwoRoomPlan(b) ==
    Plan(30 + b, 18, Frame(0, 0, 29 + b, 17, 1) \cup {<<16, 0, 16, 17>>},
         {<<16, 7, 16, 10>>}, Black, White)
\* a house standing free on the sheet
RingPlan == Plan(33, 33, Frame(8, 8, 24, 24, 1), {}, Black, White)
\* an enclosed region whose corner touches the corner of an outside region
DiagPlan ==
    Plan(26, 32, {<<6, 6, 6, 6>>, <<19, 19, 19, 19>>, <<0, 13, 0, 31>>,
                  <<0, 31, 12, 31>>}, {}, Black, White)
\* a sheet with a line along its top and its bottom only
BandPlan == Plan(15, 20, {<<0, 0, 14, 0>>, <<0, 19, 14, 19>>}, {}, Black, White)
\* a 2 px border: 65% of the pixels are bright
HalfPlan == Plan(21, 21, Frame(0, 0, 20, 20, 2), {}, Black, White)

\* a strip of ten pixels of which the first n are bright
StripPlan(n) == Plan(10, 1, {<<0, 0, n - 1, 0>>}, {}, White, Black)
StripPlans == {StripPlan(n) : n \in {2, 3, 4}}

\* a terrace of ten cells in a row: the first is too narrow to be returned,
\* the other nine are returned
TerracePlan ==
    Plan(179, 21, Frame(0, 0, 178, 20, 1) \cup {<<16 + 18 * j, 0, 16 + 18 * j, 20>> : j \in 0..8},
         {}, Black, White)

MaxGrid == 3     \* blank images are w x h with w, h in 1..MaxGrid
MaxUuids == 2    \* crypto.randomUUID() draws from 1..MaxUuids

BlankPlans ==
    {Plan(w, h, {}, {}, Black, c) :
        w \in 1..MaxGrid, h \in 1..MaxGrid, c \in {White, Black, Gray, Silver}}
SmallPlans ==
    {ColumnPlan, RowPlan, SpeckPlan, GrayPlan, RingPlan, DiagPlan, HalfPlan,
     BandPlan}
        \cup {TwoRoomPlan(b) : b \in {1, 2}}
FloorPlans == {LeakPlan(g) : g \in LeakGaps} \cup SmallPlans
Images ==
    {Draw(p) : p \in BlankPlans \cup FloorPlans \cup StripPlans \cup {TerracePlan}}
        \cup {Invert(Draw(p)) : p \in FloorPlans}
\* the editor passes CANVAS_W and CANVAS_H
CANVAS_W == 280
CANVAS_H == 280
\* the calls made: <<image, canvasWidth, canvasHeight>>
Calls ==
    {<<img, CANVAS_W, CANVAS_H>> : img \in Images}
        \cup {<<Draw(p), 1, 2>> : p \in SmallPlans}
Uuids == 1..MaxUuids
\* n distinct ids: MaxUuids of the draws there can be, each a run of
\* consecutive ids (cyclically) out of as many ids as are needed
UuidSeqs(n) ==
    LET m == Max2(n, MaxUuids)
    IN  {[k \in 1..n |-> ((k + r) % m) + 1] : r \in 0..(MaxUuids - 1)}

InitAnalyzer ==
    /\ pc = "idle"
    /\ \E c \in Calls : image = c[1] /\ canvasWidth = c[2] /\ canvasHeight = c[3]
    /\ image.width <= MAX_SIZE /\ image.height <= MAX_SIZE
    /\ binary = <<>>
    /\ dilated = <<>>
    /\ labeled = <<>>
    /\ regions = <<>>
    /\ detected = <<>>
    /\ again = <<>>
    /\ CollisionIdle
    /\ WallIdle
    /\ ColumnIdle
    /\ StoreIdle
    /\ ScaleIdle
    /\ SessionIdle
    /\ MeasureIdle

\* step 1
Binarize ==
    /\ pc = "idle"
    /\ binary' = binarize(image.data, image.width, image.height)
    /\ pc' = "binarized"
    /\ UNCHANGED <<image, canvasWidth, canvasHeight, dilated, labeled, regions,
                   detected, again>>
    /\ UNCHANGED <<collisionVars, wallVars, columnVars, selectedFurnitureId, scaleVars, sessionVars, measureVars>>

DetectPolarity ==
    /\ pc = "binarized"
    /\ binary' = detectPolarity(binary, image.width, image.height)
    /\ pc' = "polarized"
    /\ UNCHANGED <<image, canvasWidth, canvasHeight, dilated, labeled, regions,
                   detected, again>>
    /\ UNCHANGED <<collisionVars, wallVars, columnVars, selectedFurnitureId, scaleVars, sessionVars, measureVars>>

\* step 2
Dilate ==
    /\ pc = "polarized"
    /\ dilated' = dilateWalls(binary, image.width, image.height, DILATE_RADIUS)
    /\ pc' = "dilated"
    /\ UNCHANGED <<image, canvasWidth, canvasHeight, binary, labeled, regions,
                   detected, again>>
    /\ UNCHANGED <<collisionVars, wallVars, columnVars, selectedFurnitureId, scaleVars, sessionVars, measureVars>>

\* step 3
FillExterior ==
    /\ pc = "dilated"
    /\ labeled' = floodExterior(dilated, image.width, image.height, Neighbours).labeled
    /\ pc' = "filled"
    /\ UNCHANGED <<image, canvasWidth, canvasHeight, binary, dilated, regions,
                   detected, again>>
    /\ UNCHANGED <<collisionVars, wallVars, columnVars, selectedFurnitureId, scaleVars, sessionVars, measureVars>>

\* step 4 and the return
FindRooms ==
    /\ pc = "filled"
    /\ LET found == findRooms(labeled, Neighbours, image.width, image.height,
                              canvasWidth, canvasHeight)
       IN  /\ regions' = found.regions
           /\ \E ids \in UuidSeqs(Len(found.rooms)) :
                 detected' = withIds(found.rooms, ids)
    /\ pc' = "analyzeFloorPlan"
    /\ UNCHANGED <<image, canvasWidth, canvasHeight, binary, dilated, labeled, again>>
    /\ UNCHANGED <<collisionVars, wallVars, columnVars, selectedFurnitureId, scaleVars, sessionVars, measureVars>>

\* the editor's button handler runs the analysis again on the same image
AnalyzeAgain ==
    /\ pc = "analyzeFloorPlan"
    /\ LET found == analyzeFloorPlan(image, canvasWidth, canvasHeight)
       IN  \E ids \in UuidSeqs(Len(found)) : again' = withIds(found, ids)
    /\ pc' = "again"
    /\ UNCHANGED <<image, canvasWidth, canvasHeight, binary, dilated, labeled,
                   regions, detected>>
    /\ UNCHANGED <<collisionVars, wallVars, columnVars, selectedFurnitureId, scaleVars, sessionVars, measureVars>>

NextAnalyzer ==
    \/ Binarize
    \/ DetectPolarity
    \/ Dilate
    \/ FillExterior
    \/ FindRooms
    \/ AnalyzeAgain

SpecAnalyzer == InitAnalyzer /\ [][NextAnalyzer]_vars

(***************************************************************************)
(* Step 0 of analyzeFloorPlan: the size of the working grid.  The source   *)
(* computes scale = Math.min(MAX_SIZE / srcW, MAX_SIZE / srcH, 1) and      *)
(* Math.round(srcW * scale) in doubles.  Here scale is the fraction        *)
(* MAX_SIZE / max(srcW, srcH, MAX_SIZE).  Where the product is exactly     *)
(* halfway between two integers and scale < 1, the double product can be   *)
(* the half or just below it (145 x 928 gives 62, 1 x 800 gives 1), so     *)
(* both roundings are outcomes.                                            *)
(***************************************************************************)
MaxSmallSide == 4   \* small sources are 1..MaxSmallSide wide or high

\* Math.round(num / den) for num >= 0, den > 0; away from a tie it is
\* floor(num / den + 1/2)
RoundOutcomes(num, den) ==
    LET up == (2 * num + den) \div (2 * den)
        tie == (2 * num) % den = 0 /\ ((2 * num) \div den) % 2 = 1
    IN  IF tie THEN {up - 1, up} ELSE {up}

\* as downscale, but the scale is not capped at 1
downscaleUncapped(srcWArg, srcHArg) ==
    LET m == Max2(srcWArg, srcHArg)
    IN  {<<w, h>> : w \in RoundOutcomes(srcWArg * MAX_SIZE, m),
                    h \in RoundOutcomes(srcHArg * MAX_SIZE, m)}

\* the sizes <<w, h>> of lines 37-39
downscale(srcWArg, srcHArg) ==
    LET m == Max2(Max2(srcWArg, srcHArg), MAX_SIZE)
    IN  {<<w, h>> : w \in RoundOutcomes(srcWArg * MAX_SIZE, m),
                    h \in RoundOutcomes(srcHArg * MAX_SIZE, m)}

SourceSides ==
    (1..MaxSmallSide) \cup {145, 155, 399, 400, 401, 551, 589, 799, 800, 801,
                            928, 992, 1000, 2400, 4000}

InitScale ==
    /\ pc = "idle"
    /\ srcW \in SourceSides
    /\ srcH \in SourceSides
    /\ scaledW = 0
    /\ scaledH = 0
    /\ selectedFurnitureId = "null"
    /\ SessionIdle
    /\ MeasureIdle
    /\ CollisionIdle
    /\ WallIdle
    /\ ColumnIdle
    /\ AnalyzerIdle

Downscale ==
    /\ pc = "idle"
    /\ \E size \in downscale(srcW, srcH) : scaledW' = size[1] /\ scaledH' = size[2]
    /\ pc' = "downscaled"
    /\ UNCHANGED <<srcW, srcH>>
    /\ UNCHANGED <<collisionVars, wallVars, columnVars, analyzerVars, selectedFurnitureId,
                   sessionVars, measureVars>>

NextScale == Downscale

SpecScale == InitScale /\ [][NextScale]_vars

(***************************************************************************)
(* The furniture operations of the store (useHouseStore.ts, lines 46-86).  *)
(* The store's furniture array is the variable `furniture`; a null         *)
(* selectedFurnitureId is the string "null".  Sizes are even, so           *)
(* size[1] / 2 is exact.                                                   *)
(***************************************************************************)
MaxStored == 2   \* the store holds at most MaxStored items

\* { rotation: 0, elevation: 0, ...f }
normalizeFurniture(f) ==
    [k \in DOMAIN f \cup {"rotation", "elevation"} |->
        IF k \in DOMAIN f THEN f[k] ELSE 0]

\* { ...f, ...patch }
Spread(f, patch) ==
    [k \in DOMAIN f \cup DOMAIN patch |->
        IF k \in DOMAIN patch THEN patch[k] ELSE f[k]]

addFurniture(list, item) == Append(list, normalizeFurniture(item))

\* s.furniture.map((f) => (f.id === id ? { ...f, ...patch } : f))
updateFurniture(list, id, patch) ==
    [k \in 1..Len(list) |->
        IF list[k].id = id THEN Spread(list[k], patch) ELSE list[k]]

updateFurniturePosition(list, id, position) ==
    [k \in 1..Len(list) |->
        IF list[k].id = id THEN [list[k] EXCEPT !.position = position] ELSE list[k]]

updateFurnitureSize(list, id, size) ==
    LET change(f) ==
            LET elev == ElevationOf(f)
                newY == elev + size[2] \div 2
            IN  [f EXCEPT !.size = size,
                          !.position = <<f.position[1], newY, f.position[3]>>]
    IN  [k \in 1..Len(list) |-> IF list[k].id # id THEN list[k] ELSE change(list[k])]

updateFurnitureElevation(list, id, elevation) ==
    LET change(f) ==
            LET newY == elevation + f.size[2] \div 2
            IN  [f EXCEPT !.elevation = elevation,
                          !.position = <<f.position[1], newY, f.position[3]>>]
    IN  [k \in 1..Len(list) |-> IF list[k].id # id THEN list[k] ELSE change(list[k])]

removeFurniture(list, id) ==
    LET Keep(f) == f.id # id
    IN  SelectSeq(list, Keep)

\* position.y = elevation + size.y / 2
YDerived(f) == f.position[2] = ElevationOf(f) + f.size[2] \div 2

StoreIds == {"a", "b"}
StoreHeights == {2, 4}
StoreElevations == {0, 1}
StoreYs == {1, 2, 3}
StoreSizes == {<<2, h, 2>> : h \in StoreHeights}
StorePositions == {<<0, y, 0>> : y \in StoreYs}
\* the items a caller adds: y is elevation + height / 2; an item of old
\* data has no rotation and no elevation
NewItems ==
    {[id |-> id, position |-> <<0, e + h \div 2, 0>>, size |-> <<2, h, 2>>,
      rotation |-> 0, elevation |-> e] :
        id \in StoreIds, h \in StoreHeights, e \in StoreElevations}
        \cup {[id |-> id, position |-> <<0, h \div 2, 0>>, size |-> <<2, h, 2>>] :
                 id \in StoreIds, h \in StoreHeights}
\* Partial<Furniture>
Patches ==
    {[rotation |-> 0]}
        \cup {[position |-> p] : p \in StorePositions}
        \cup {[size |-> sz] : sz \in StoreSizes}
        \cup {[elevation |-> e] : e \in StoreElevations}

InitStore ==
    /\ pc = "idle"
    /\ selectedFurnitureId = "null"
    /\ ScaleIdle
    /\ SessionIdle
    /\ MeasureIdle
    /\ CollisionIdle
    /\ WallIdle
    /\ ColumnIdle
    /\ AnalyzerIdle

StoreFrame ==
    /\ pc' = pc
    /\ UNCHANGED <<boxA, boxB, collides, collidingIds>>
    /\ UNCHANGED <<wallVars, columnVars, analyzerVars, scaleVars, sessionVars, measureVars>>

AddFurniture ==
    /\ Len(furniture) < MaxStored
    /\ \E item \in NewItems : furniture' = addFurniture(furniture, item)
    /\ UNCHANGED selectedFurnitureId
    /\ StoreFrame

UpdateFurniture ==
    /\ \E id \in StoreIds, patch \in Patches :
          furniture' = updateFurniture(furniture, id, patch)
    /\ UNCHANGED selectedFurnitureId
    /\ StoreFrame

UpdateFurniturePosition ==
    /\ \E id \in StoreIds, position \in StorePositions :
          furniture' = updateFurniturePosition(furniture, id, position)
    /\ UNCHANGED selectedFurnitureId
    /\ StoreFrame

UpdateFurnitureSize ==
    /\ \E id \in StoreIds, size \in StoreSizes :
          furniture' = updateFurnitureSize(furniture, id, size)
    /\ UNCHANGED selectedFurnitureId
    /\ StoreFrame

UpdateFurnitureElevation ==
    /\ \E id \in StoreIds, elevation \in StoreElevations :
          furniture' = updateFurnitureElevation(furniture, id, elevation)
    /\ UNCHANGED selectedFurnitureId
    /\ StoreFrame

RemoveFurniture ==
    /\ \E id \in StoreIds :
          /\ furniture' = removeFurniture(furniture, id)
          /\ selectedFurnitureId' =
                IF selectedFurnitureId = id THEN "null" ELSE selectedFurnitureId
    /\ StoreFrame

SelectFurniture ==
    /\ \E id \in StoreIds \cup {"null"} : selectedFurnitureId' = id
    /\ UNCHANGED furniture
    /\ StoreFrame

NextStore ==
    \/ AddFurniture
    \/ UpdateFurniture
    \/ UpdateFurniturePosition
    \/ UpdateFurnitureSize
    \/ UpdateFurnitureElevation
    \/ RemoveFurniture
    \/ SelectFurniture

SpecStore == InitStore /\ [][NextStore]_vars

(***************************************************************************)
(* The store with its undo history.  The temporal middleware tracks the    *)
(* partialized state (rooms, furniture, openings): a set pushes the state  *)
(* it replaces onto pastStates and empties futureStates, undo and redo     *)
(* move the tracked lists between the two stacks and touch nothing else.   *)
(* SpecStore above is the same store while tracking is paused.             *)
(***************************************************************************)
MaxHistory == 2   \* limit: the history keeps the last MaxHistory states

\* partialize: (state) => ({ rooms, furniture, openings })
Partialized == [rooms |-> rooms, furniture |-> furniture, openings |-> openings]

pushPast(past, snapshot) ==
    IF Len(past) >= MaxHistory THEN Append(Tail(past), snapshot)
    ELSE Append(past, snapshot)

\* a set while tracking
Tracked ==
    /\ pastStates' = pushPast(pastStates, Partialized)
    /\ futureStates' = <<>>

\* a set that changes no tracked list: the middleware records it like any
\* other set, or skips it when it compares the partialized states
TrackedOrSkipped == Tracked \/ UNCHANGED <<pastStates, futureStates>>

IdsOf(list) == {list[k].id : k \in 1..Len(list)}

addRoom(list, room) == Append(list, room)

\* s.rooms.map((r) => (r.id === id ? { ...r, ...patch } : r))
updateRoom(list, id, patch) ==
    [k \in 1..Len(list) |->
        IF list[k].id = id THEN Spread(list[k], patch) ELSE list[k]]

removeRoom(list, id) ==
    LET Keep(r) == r.id # id
    IN  SelectSeq(list, Keep)

addOpening(list, o) == Append(list, o)

updateOpening(list, id, patch) ==
    [k \in 1..Len(list) |->
        IF list[k].id = id THEN Spread(list[k], patch) ELSE list[k]]

removeOpening(list, id) ==
    LET Keep(o) == o.id # id
    IN  SelectSeq(list, Keep)

\* furniture.map(normalizeFurniture)
importedFurniture(list) == [k \in 1..Len(list) |-> normalizeFurniture(list[k])]

SessionRooms == {Room("r1", 0, 0, 100, 80)}
RoomPatches == {[width |-> 120]}
SessionFurniture ==
    {[id |-> "a", position |-> <<0, 1, 0>>, size |-> <<2, 2, 2>>,
      rotation |-> 0, elevation |-> 0]}
FurniturePatches == {[rotation |-> 1]}
SessionOpenings ==
    {[id |-> "o1", kind |-> "door", canvasX |-> 50, canvasY |-> 0, wallAxis |-> "h",
      widthPx |-> 20, height |-> 2, sillHeight |-> 0]}
OpeningPatches == {[widthPx |-> 28]}
\* the files a user imports: an empty plan, and a plan of old data
ImportedPlans ==
    {[rooms |-> <<>>, furniture |-> <<>>, openings |-> <<>>],
     [rooms |-> <<Room("r1", 0, 0, 100, 80)>>,
      furniture |-> <<[id |-> "a", position |-> <<0, 1, 0>>, size |-> <<2, 2, 2>>]>>,
      openings |-> <<>>]}

InitSession ==
    /\ pc = "idle"
    /\ rooms = <<>>
    /\ furniture = <<>>
    /\ selectedFurnitureId = "null"
    /\ SessionIdle
    /\ MeasureIdle
    /\ boxA = NULL /\ boxB = NULL /\ collides = NULL /\ collidingIds = NULL
    /\ cx = 0 /\ cy = 0 /\ snapDist = Px(0) /\ wallHit = NULL /\ editorHit = NULL
    /\ ColumnIdle
    /\ AnalyzerIdle
    /\ ScaleIdle

SessionFrame ==
    /\ UNCHANGED <<boxA, boxB, collides, collidingIds>>
    /\ UNCHANGED <<cx, cy, snapDist, wallHit, editorHit>>
    /\ UNCHANGED <<columnVars, analyzerVars, scaleVars>>

AddRoom ==
    /\ \E room \in SessionRooms :
          /\ room.id \notin IdsOf(rooms)
          /\ rooms' = addRoom(rooms, room)
    /\ Tracked
    /\ pc' = "addRoom"
    /\ UNCHANGED <<furniture, openings, selectedRoomId, selectedFurnitureId,
                   selectedOpeningId, measureVars>>
    /\ SessionFrame

UpdateRoom ==
    /\ \E room \in SessionRooms, patch \in RoomPatches :
          rooms' = updateRoom(rooms, room.id, patch)
    /\ Tracked
    /\ pc' = "updateRoom"
    /\ UNCHANGED <<furniture, openings, selectedRoomId, selectedFurnitureId,
                   selectedOpeningId, measureVars>>
    /\ SessionFrame

RemoveRoom ==
    /\ \E room \in SessionRooms :
          /\ rooms' = removeRoom(rooms, room.id)
          /\ selectedRoomId' = IF selectedRoomId = room.id THEN "null" ELSE selectedRoomId
    /\ Tracked
    /\ pc' = "removeRoom"
    /\ UNCHANGED <<furniture, openings, selectedFurnitureId, selectedOpeningId, measureVars>>
    /\ SessionFrame

SelectRoom ==
    /\ \E id \in IdsOf(rooms) \cup {"null"} : selectedRoomId' = id
    /\ TrackedOrSkipped
    /\ pc' = "selectRoom"
    /\ UNCHANGED <<rooms, furniture, openings, selectedFurnitureId, selectedOpeningId,
                   measureVars>>
    /\ SessionFrame

TrackedAddFurniture ==
    /\ \E item \in SessionFurniture :
          /\ item.id \notin IdsOf(furniture)
          /\ furniture' = addFurniture(furniture, item)
    /\ Tracked
    /\ pc' = "addFurniture"
    /\ UNCHANGED <<rooms, openings, selectedRoomId, selectedFurnitureId,
                   selectedOpeningId, measureVars>>
    /\ SessionFrame

TrackedUpdateFurniture ==
    /\ \E item \in SessionFurniture, patch \in FurniturePatches :
          furniture' = updateFurniture(furniture, item.id, patch)
    /\ Tracked
    /\ pc' = "updateFurniture"
    /\ UNCHANGED <<rooms, openings, selectedRoomId, selectedFurnitureId,
                   selectedOpeningId, measureVars>>
    /\ SessionFrame

TrackedRemoveFurniture ==
    /\ \E item \in SessionFurniture :
          /\ furniture' = removeFurniture(furniture, item.id)
          /\ selectedFurnitureId' =
                IF selectedFurnitureId = item.id THEN "null" ELSE selectedFurnitureId
    /\ Tracked
    /\ pc' = "removeFurniture"
    /\ UNCHANGED <<rooms, openings, selectedRoomId, selectedOpeningId, measureVars>>
    /\ SessionFrame

TrackedSelectFurniture ==
    /\ \E id \in IdsOf(furniture) \cup {"null"} : selectedFurnitureId' = id
    /\ TrackedOrSkipped
    /\ pc' = "selectFurniture"
    /\ UNCHANGED <<rooms, furniture, openings, selectedRoomId, selectedOpeningId,
                   measureVars>>
    /\ SessionFrame

AddOpening ==
    /\ \E o \in SessionOpenings :
          /\ o.id \notin IdsOf(openings)
          /\ openings' = addOpening(openings, o)
    /\ Tracked
    /\ pc' = "addOpening"
    /\ UNCHANGED <<rooms, furniture, selectedRoomId, selectedFurnitureId,
                   selectedOpeningId, measureVars>>
    /\ SessionFrame

UpdateOpening ==
    /\ \E o \in SessionOpenings, patch \in OpeningPatches :
          openings' = updateOpening(openings, o.id, patch)
    /\ Tracked
    /\ pc' = "updateOpening"
    /\ UNCHANGED <<rooms, furniture, selectedRoomId, selectedFurnitureId,
                   selectedOpeningId, measureVars>>
    /\ SessionFrame

RemoveOpening ==
    /\ \E o \in SessionOpenings :
          /\ openings' = removeOpening(openings, o.id)
          /\ selectedOpeningId' =
                IF selectedOpeningId = o.id THEN "null" ELSE selectedOpeningId
    /\ Tracked
    /\ pc' = "removeOpening"
    /\ UNCHANGED <<rooms, furniture, selectedRoomId, selectedFurnitureId, measureVars>>
    /\ SessionFrame

SelectOpening ==
    /\ \E id \in IdsOf(openings) \cup {"null"} : selectedOpeningId' = id
    /\ TrackedOrSkipped
    /\ pc' = "selectOpening"
    /\ UNCHANGED <<rooms, furniture, openings, selectedRoomId, selectedFurnitureId,
                   measureVars>>
    /\ SessionFrame

ImportState ==
    /\ \E plan \in ImportedPlans :
          /\ rooms' = plan.rooms
          /\ furniture' = importedFurniture(plan.furniture)
          /\ openings' = plan.openings
    /\ selectedRoomId' = "null"
    /\ selectedFurnitureId' = "null"
    /\ selectedOpeningId' = "null"
    /\ measurePoints' = <<>>
    /\ measureHeights' = <<0, 0>>
    /\ Tracked
    /\ pc' = "importState"
    /\ UNCHANGED measureMode
    /\ SessionFrame

\* useHouseStore.temporal.getState().undo()
Undo ==
    /\ Len(pastStates) > 0
    /\ LET last == pastStates[Len(pastStates)]
       IN  /\ rooms' = last.rooms
           /\ furniture' = last.furniture
           /\ openings' = last.openings
    /\ pastStates' = SubSeq(pastStates, 1, Len(pastStates) - 1)
    /\ futureStates' = Append(futureStates, Partialized)
    /\ pc' = "undo"
    /\ UNCHANGED <<selectedRoomId, selectedFurnitureId, selectedOpeningId, measureVars>>
    /\ SessionFrame

\* useHouseStore.temporal.getState().redo()
Redo ==
    /\ Len(futureStates) > 0
    /\ LET last == futureStates[Len(futureStates)]
       IN  /\ rooms' = last.rooms
           /\ furniture' = last.furniture
           /\ openings' = last.openings
    /\ futureStates' = SubSeq(futureStates, 1, Len(futureStates) - 1)
    /\ pastStates' = Append(pastStates, Partialized)
    /\ pc' = "redo"
    /\ UNCHANGED <<selectedRoomId, selectedFurnitureId, selectedOpeningId, measureVars>>
    /\ SessionFrame

NextSession ==
    \/ AddRoom
    \/ UpdateRoom
    \/ RemoveRoom
    \/ SelectRoom
    \/ TrackedAddFurniture
    \/ TrackedUpdateFurniture
    \/ TrackedRemoveFurniture
    \/ TrackedSelectFurniture
    \/ AddOpening
    \/ UpdateOpening
    \/ RemoveOpening
    \/ SelectOpening
    \/ ImportState
    \/ Undo
    \/ Redo

SpecSession == InitSession /\ [][NextSession]_vars

(***************************************************************************)
(* The measurement state of the store: measureMode, measurePoints and      *)
(* measureHeights.  A MeasurePoint is [x, y, z].                           *)
(***************************************************************************)
\* if (s.measurePoints.length > 2): the reset comes one point late
addMeasurePointLate(points, heights, pt) ==
    IF Len(points) > 2 THEN [measurePoints |-> <<pt>>, measureHeights |-> <<0, 0>>]
    ELSE [measurePoints |-> Append(points, pt), measureHeights |-> heights]

addMeasurePoint(points, heights, pt) ==
    IF Len(points) >= 2 THEN [measurePoints |-> <<pt>>, measureHeights |-> <<0, 0>>]
    ELSE [measurePoints |-> Append(points, pt), measureHeights |-> heights]

\* next[index] = height, index 0 or 1
setMeasureHeight(heights, index, height) == [heights EXCEPT ![index + 1] = height]

MeasureInputs == {[x |-> 0, y |-> 0, z |-> 0], [x |-> 1, y |-> 0, z |-> 2]}
HeightInputs == {0, 1}

SetMeasureMode ==
    /\ \E on \in BOOLEAN : measureMode' = on
    /\ measurePoints' = <<>>
    /\ measureHeights' = <<0, 0>>
    /\ TrackedOrSkipped
    /\ pc' = "setMeasureMode"
    /\ UNCHANGED <<rooms, furniture, openings, selectedRoomId, selectedFurnitureId,
                   selectedOpeningId>>
    /\ SessionFrame

AddMeasurePoint ==
    /\ \E pt \in MeasureInputs :
          LET next == addMeasurePoint(measurePoints, measureHeights, pt)
          IN  /\ measurePoints' = next.measurePoints
              /\ measureHeights' = next.measureHeights
    /\ TrackedOrSkipped
    /\ pc' = "addMeasurePoint"
    /\ UNCHANGED <<rooms, furniture, openings, selectedRoomId, selectedFurnitureId,
                   selectedOpeningId, measureMode>>
    /\ SessionFrame

ClearMeasurePoints ==
    /\ measurePoints' = <<>>
    /\ measureHeights' = <<0, 0>>
    /\ TrackedOrSkipped
    /\ pc' = "clearMeasurePoints"
    /\ UNCHANGED <<rooms, furniture, openings, selectedRoomId, selectedFurnitureId,
                   selectedOpeningId, measureMode>>
    /\ SessionFrame

SetMeasureHeight ==
    /\ \E index \in {0, 1}, height \in HeightInputs :
          measureHeights' = setMeasureHeight(measureHeights, index, height)
    /\ TrackedOrSkipped
    /\ pc' = "setMeasureHeight"
    /\ UNCHANGED <<rooms, furniture, openings, selectedRoomId, selectedFurnitureId,
                   selectedOpeningId, measureMode, measurePoints>>
    /\ SessionFrame

NextMeasure ==
    \/ SetMeasureMode
    \/ AddMeasurePoint
    \/ ClearMeasurePoints
    \/ SetMeasureHeight
    \/ ImportState

SpecMeasure == InitSession /\ [][NextMeasure]_vars

(***************************************************************************)
(* Claims about columnEdgeCenter                                           *)
(***************************************************************************)
\* the two faces of the column across the wall, times 2: the column has
\* depth depthPx and is centred at columnCenter
ColumnFaces ==
    LET c2 == IF wall.wallAxis = "h" THEN columnCenter.canvasY
                                     ELSE columnCenter.canvasX
    IN  <<c2 - depthPx, c2 + depthPx>>
\* the wall line and the cursor, across the wall, times 2
WallLine2 == 2 * (IF wall.wallAxis = "h" THEN wall.canvasY ELSE wall.canvasX)
CursorAcross2 == 2 * (IF wall.wallAxis = "h" THEN cursor.cy ELSE cursor.cx)

\* C11: columnEdgeCenter moves the hit by depth/2 across the wall, to the
\* positive side when the cursor coordinate is >= the wall's and to the
\* negative side when it is <; a horizontal wall moves Y, a vertical one X,
\* and the coordinate along the wall is the hit's.  So one face of the
\* column is on the wall line and the whole column is on the cursor's side.
Thm_C11_ColumnEdgeCenter ==
    pc = "columnEdgeCenter" =>
        /\ wall.wallAxis = "h" =>
              /\ columnCenter.canvasX = 2 * wall.canvasX
              /\ cursor.cy >= wall.canvasY =>
                    columnCenter.canvasY = 2 * wall.canvasY + depthPx
              /\ cursor.cy < wall.canvasY =>
                    columnCenter.canvasY = 2 * wall.canvasY - depthPx
        /\ wall.wallAxis = "v" =>
              /\ columnCenter.canvasY = 2 * wall.canvasY
              /\ cursor.cx >= wall.canvasX =>
                    columnCenter.canvasX = 2 * wall.canvasX + depthPx
              /\ cursor.cx < wall.canvasX =>
                    columnCenter.canvasX = 2 * wall.canvasX - depthPx
        /\ WallLine2 \in {ColumnFaces[1], ColumnFaces[2]}
        /\ IF CursorAcross2 >= WallLine2
           THEN ColumnFaces[1] >= WallLine2
           ELSE ColumnFaces[2] <= WallLine2

\* a cursor exactly on a vertical wall line, and a column of odd depth
Wit_C11 ==
    /\ pc = "columnEdgeCenter"
    /\ wall.wallAxis = "v"
    /\ cursor.cx = wall.canvasX
    /\ depthPx = 1
    /\ columnCenter.canvasX = 2 * wall.canvasX + 1

(***************************************************************************)
(* Claims about analyzeFloorPlan.  Regions of a label grid are found here  *)
(* from the definition of 4-connectivity, not by the queues of the source. *)
(***************************************************************************)
GridW == image.width
GridH == image.height
Returned2 == pc \in {"analyzeFloorPlan", "again"}
XOf(i) == i % GridW
YOf(i) == i \div GridW

\* the pixels that share a side with pixel i
Beside(i) ==
    {j \in {i - 1, i + 1, i - GridW, i + GridW} :
        /\ j \in Pixels(GridW, GridH)
        /\ Abs(XOf(i) - XOf(j)) + Abs(YOf(i) - YOf(j)) = 1}
\* i and j share a corner but no side
Diagonal(i, j) == Abs(XOf(i) - XOf(j)) = 1 /\ Abs(YOf(i) - YOf(j)) = 1
OnBorder(i) ==
    XOf(i) = 0 \/ XOf(i) = GridW - 1 \/ YOf(i) = 0 \/ YOf(i) = GridH - 1

\* the pixels of `allowed` joined to `reached` by a path of pixels of
\* `allowed`, each beside the next; `frontier` is the part of `reached`
\* whose neighbours have not been looked at
RECURSIVE Grow(_, _, _)
Grow(reached, frontier, allowed) ==
    LET more == {j \in UNION {Beside(i) : i \in frontier} :
                    j \in allowed /\ j \notin reached}
    IN  IF more = {} THEN reached
        ELSE Grow({j \in allowed : j \in reached \/ j \in more}, more, allowed)

Connected(seeds, allowed) == Grow(seeds, seeds, allowed)

\* the 4-connected components of a set of pixels
RECURSIVE ComponentsOf(_)
ComponentsOf(pixels) ==
    IF pixels = {} THEN {}
    ELSE LET first == SetMin(pixels)
             c == Connected({first}, pixels)
         IN  {c} \cup ComponentsOf({j \in pixels : j \notin c})

\* [x, y, width, height] of a room as the source computes them from a box
\* of pixels, in the units of the model
RectOfBox(minX, maxX, minY, maxY) ==
    [x |-> minX * canvasWidth, y |-> minY * canvasHeight,
     width |-> (maxX - minX) * canvasWidth,
     height |-> (maxY - minY) * canvasHeight]
\* the rectangle the bounding box of a set of pixels gives
RectOfPixels(c) ==
    RectOfBox(SetMin({XOf(i) : i \in c}), SetMax({XOf(i) : i \in c}),
              SetMin({YOf(i) : i \in c}), SetMax({YOf(i) : i \in c}))
RectOf(room) ==
    [x |-> room.x, y |-> room.y, width |-> room.width, height |-> room.height]
\* a room without its id
Geometry(room) ==
    [name |-> room.name, color |-> room.color, x |-> room.x, y |-> room.y,
     width |-> room.width, height |-> room.height]
Geometries(roomList) == [k \in 1..Len(roomList) |-> Geometry(roomList[k])]
RectSet(roomList) == {RectOf(roomList[k]) : k \in 1..Len(roomList)}

Classified == binarize(image.data, GridW, GridH)
AllWall == \A i \in Pixels(GridW, GridH) : Classified[i] = WALL
AllOpen == \A i \in Pixels(GridW, GridH) : Classified[i] = OPEN

\* C13: an image whose pixels are all classified Wall, and one whose
\* pixels are all classified Open, make analyzeFloorPlan return the empty
\* list, whatever the size of the grid.
Thm_C13_BlankImageNoRooms ==
    (Returned2 /\ (AllWall \/ AllOpen)) => Len(detected) = 0

Wit_C13 ==
    /\ pc = "analyzeFloorPlan"
    /\ AllWall
    /\ GridW = MaxGrid
    /\ GridH = MaxGrid
    /\ Len(detected) = 0

\* C14 as stated: every returned room has width > 0 and height > 0.
Orig_C14_PositiveSize ==
    Returned2 => \A k \in 1..Len(detected) :
                    detected[k].width > 0 /\ detected[k].height > 0

\* brightness of a pixel and of its inversion
Bright(rgb) == Gray1000(rgb) >= 1000 * WALL_THRESHOLD
BrightInverted(rgb) == Bright(<<255 - rgb[1], 255 - rgb[2], 255 - rgb[3]>>)
TwoLevel == \A i \in Pixels(GridW, GridH) :
               Bright(image.data[i]) \/ BrightInverted(image.data[i])
BrightCount == Cardinality({i \in Pixels(GridW, GridH) : Bright(image.data[i])})
\* fewer than 30% or more than 70% of the pixels are bright
ClearPolarity ==
    \/ 10 * BrightCount < 3 * GridW * GridH
    \/ 10 * BrightCount > 7 * GridW * GridH
InvertedRooms == analyzeFloorPlan(Invert(image), canvasWidth, canvasHeight)

\* C15 as stated: an image and its exact inversion give the same set of
\* room rectangles.
Orig_C15_PolarityInvariance ==
    pc = "analyzeFloorPlan" => RectSet(InvertedRooms) = RectSet(detected)

\* C15, amended: an image whose pixels are all bright (luma >= 200) or all
\* dark enough to be bright when inverted (luma <= 55), and of which fewer
\* than 30% or more than 70% are bright, gives the same set of room
\* rectangles as its exact inversion.
Thm_C15_PolarityInvarianceTwoLevel ==
    (pc = "analyzeFloorPlan" /\ TwoLevel /\ ClearPolarity) =>
        RectSet(InvertedRooms) = RectSet(detected)

\* a dark sheet with bright walls, in which a room is found
Wit_C15 ==
    /\ pc = "analyzeFloorPlan"
    /\ TwoLevel
    /\ 10 * BrightCount < 3 * GridW * GridH
    /\ Len(detected) = 1
    /\ RectSet(InvertedRooms) = RectSet(detected)

\* other orders in which the four neighbours can be visited
OtherOrders ==
    {<<Neighbours[4], Neighbours[3], Neighbours[2], Neighbours[1]>>,
     <<Neighbours[3], Neighbours[1], Neighbours[4], Neighbours[2]>>,
     <<Neighbours[2], Neighbours[4], Neighbours[1], Neighbours[3]>>}

\* C18: a second call with the same pixels and canvas dimensions returns
\* the same rectangles, names and colours in the same order (only the ids
\* are drawn afresh), and visiting the neighbours in another order gives
\* the same rooms.
Thm_C18_Deterministic ==
    /\ pc = "again" => Geometries(again) = Geometries(detected)
    /\ pc = "analyzeFloorPlan" =>
          \A order \in OtherOrders :
              findRooms(labeled, order, GridW, GridH,
                        canvasWidth, canvasHeight).rooms = Geometries(detected)

\* two rooms, and the two calls drew different ids
Wit_C18 ==
    /\ pc = "again"
    /\ Len(detected) = 2
    /\ Len(again) = 2
    /\ again[1].id # detected[1].id
    /\ Geometries(again) = Geometries(detected)

OpenDilated == {i \in Pixels(GridW, GridH) : dilated[i] = OPEN}
\* Open after dilation and joined to an Open border pixel
Outside == Connected({i \in OpenDilated : OnBorder(i)}, OpenDilated)

\* C19: when the exterior fill is over, a pixel is Exterior iff it was
\* Open after dilation and is joined to an Open border pixel by a path of
\* Open pixels sharing sides; no Open pixel is beside an Exterior one;
\* Wall pixels are the Wall pixels of the dilated grid; every other pixel,
\* also one that touches an Exterior pixel by a corner, is still Open.
Thm_C19_ExteriorFill ==
    pc = "filled" =>
        LET outside == Outside
        IN  \A i \in Pixels(GridW, GridH) :
                /\ labeled[i] = EXTERIOR <=> i \in outside
                /\ labeled[i] = OPEN => \A j \in Beside(i) : labeled[j] # EXTERIOR
                /\ labeled[i] = WALL <=> dilated[i] = WALL
                /\ (dilated[i] = OPEN /\ i \notin outside) => labeled[i] = OPEN

\* an Open pixel that touches an Exterior pixel by a corner
Wit_C19 ==
    /\ pc = "filled"
    /\ \E i, j \in Pixels(GridW, GridH) :
          /\ labeled[i] = OPEN
          /\ labeled[j] = EXTERIOR
          /\ Diagonal(i, j)
    /\ \E j \in Pixels(GridW, GridH) : labeled[j] = EXTERIOR /\ ~OnBorder(j)

OpenLeft == {i \in Pixels(GridW, GridH) : labeled[i] = OPEN}
LargeEnough(c) == 1000 * Cardinality(c) >= GridW * GridH * MIN_AREA_RATIO_1000

\* C20: the rooms returned correspond one-to-one to the 4-connected
\* components of the pixels still Open after the exterior fill that have
\* at least MIN_AREA_RATIO * w * h pixels: as many rooms as such
\* components, and each such component is the box of exactly one room.
\* The search goes through every component once: each region it counts is
\* a whole component, no two regions are the same component, and there are
\* as many regions as components.
Thm_C20_RoomsAreComponents ==
    pc = "analyzeFloorPlan" =>
        LET comps == ComponentsOf(OpenLeft)
            large == {c \in comps : LargeEnough(c)}
        IN  /\ Len(detected) = Cardinality(large)
            /\ \A c \in large :
                  Cardinality({k \in 1..Len(detected) :
                                  RectOf(detected[k]) = RectOfPixels(c)}) = 1
            /\ Len(regions) = Cardinality(comps)
            /\ \A k \in 1..Len(regions) :
                  /\ \E c \in comps : regions[k].start \in c
                                         /\ regions[k].area = Cardinality(c)
                  /\ \A j \in 1..(k - 1) :
                        \A c \in comps : ~(regions[k].start \in c
                                             /\ regions[j].start \in c)

\* one component is returned and a smaller one is discarded
Wit_C20 ==
    /\ pc = "analyzeFloorPlan"
    /\ Len(detected) = 1
    /\ Len(regions) = 2
    /\ \E c \in ComponentsOf(OpenLeft) : ~LargeEnough(c)

(***************************************************************************)
(* Claims about the furniture operations of the store                      *)
(***************************************************************************)
\* C16 as stated: after any sequence of addFurniture (of an item with
\* position.y = elevation + size.y / 2), updateFurniture,
\* updateFurniturePosition, updateFurnitureSize, updateFurnitureElevation
\* and removeFurniture, every item of the store has
\* position.y = elevation + size.y / 2.
Orig_C16_YDerived ==
    \A k \in 1..Len(furniture) : YDerived(furniture[k])

(***************************************************************************)
(* Claims about the core functions together                                *)
(***************************************************************************)
\* what the callers own: the furniture list, the room list, the point and
\* the snap distance, the cursor, the wall hit and the depth
callerOwned == <<furniture, rooms, cx, cy, snapDist, cursor, wall, depthPx>>

CoreReturned == pc \in {"checkCollision", "getCollidingIds", "findNearestWall", "columnEdgeCenter"}

Polarized == detectPolarity(Classified, GridW, GridH)

\* some pixel that is Wall in grid g lies in the square of Chebyshev
\* distance r around pixel i
WallWithin(g, i, r) ==
    \E dx \in -r..r, dy \in -r..r :
        /\ XOf(i) + dx \in 0..(GridW - 1)
        /\ YOf(i) + dy \in 0..(GridH - 1)
        /\ g[(YOf(i) + dy) * GridW + XOf(i) + dx] = WALL

\* C21: after dilateWalls with radius DILATE_RADIUS a pixel is Wall iff some
\* pixel that was Wall before lies within the square of that Chebyshev
\* distance around it; a pixel that was Wall stays Wall, every other pixel
\* keeps its value, and the grid that was handed in is as it was.
Thm_C21_DilationGrowsWalls ==
    pc = "dilated" =>
        /\ binary = Polarized
        /\ \A i \in Pixels(GridW, GridH) :
              /\ dilated[i] = WALL <=> WallWithin(binary, i, DILATE_RADIUS)
              /\ binary[i] = WALL => dilated[i] = WALL
              /\ ~WallWithin(binary, i, DILATE_RADIUS) => dilated[i] = binary[i]

\* a grid where dilation turned an Open pixel at the corner of a square into
\* Wall and left another Open pixel Open
Wit_C21 ==
    /\ pc = "dilated"
    /\ \E i \in Pixels(GridW, GridH) : binary[i] = OPEN /\ dilated[i] = OPEN
    /\ \E i \in Pixels(GridW, GridH) :
          /\ binary[i] = OPEN /\ dilated[i] = WALL
          /\ \A j \in Pixels(GridW, GridH) :
                binary[j] = WALL =>
                    Abs(XOf(i) - XOf(j)) + Abs(YOf(i) - YOf(j)) > DILATE_RADIUS

OpenCount == Cardinality({i \in Pixels(GridW, GridH) : Classified[i] = OPEN})
Flipped(v) == IF v = OPEN THEN WALL ELSE OPEN

\* C22: after the polarity test, if the number of pixels classified Open
\* was strictly less than 30% of w * h, every pixel is the opposite of its
\* classification; if it was 30% or more, exactly 30% included, the grid
\* is the classification.
Thm_C22_PolarityThreshold ==
    pc = "polarized" =>
        /\ 100 * OpenCount < 30 * GridW * GridH =>
              \A i \in Pixels(GridW, GridH) : binary[i] = Flipped(Classified[i])
        /\ 100 * OpenCount >= 30 * GridW * GridH => binary = Classified

\* exactly 30% of the pixels are Open, and the grid was left as it was
Wit_C22 ==
    /\ pc = "polarized"
    /\ OpenCount > 0
    /\ 100 * OpenCount = 30 * GridW * GridH
    /\ binary = Classified

\* the cell of pixel i, [x, x + 1] x [y, y + 1] in grid coordinates, lies
\* in the rectangle of the room mapped back to the grid (both sides are
\* multiplied by the grid size and the canvas size)
CoversCell(room, i) ==
    /\ room.x <= XOf(i) * canvasWidth
    /\ (XOf(i) + 1) * canvasWidth <= room.x + room.width
    /\ room.y <= YOf(i) * canvasHeight
    /\ (YOf(i) + 1) * canvasHeight <= room.y + room.height

\* C23 as stated: every component that is returned has a room whose
\* top-left corner is (minX * canvasWidth / w, minY * canvasHeight / h) and
\* whose rectangle, mapped back to the grid, covers the cell of every pixel
\* of the component (the columns minX..maxX and the rows minY..maxY).
Orig_C23_BoxCoversComponent ==
    pc = "analyzeFloorPlan" =>
        \A c \in {d \in ComponentsOf(OpenLeft) : LargeEnough(d)} :
            \E k \in 1..Len(detected) :
                /\ detected[k].x = SetMin({XOf(i) : i \in c}) * canvasWidth
                /\ detected[k].y = SetMin({YOf(i) : i \in c}) * canvasHeight
                /\ \A i \in c : CoversCell(detected[k], i)

\* the components that are returned, and the place of one of them in the
\* row-major order of their first pixels
LargeComponents == {c \in ComponentsOf(OpenLeft) : LargeEnough(c)}
RankOf(c, comps) == Cardinality({d \in comps : SetMin(d) < SetMin(c)}) + 1

\* C24 as stated: the k-th room returned is named "Room k" and has the
\* colour ROOM_COLORS[(k-1) mod 8].
Orig_C24_RoomK ==
    pc = "analyzeFloorPlan" =>
        \A k \in 1..Len(detected) :
            /\ detected[k].name = [prefix |-> "Room ", n |-> k]
            /\ detected[k].color = ROOM_COLORS[((k - 1) % 8) + 1]

\* C24, amended: the k-th room returned (k from 1) is the k-th of the
\* returned components in the row-major order of their first pixels, its
\* name is the two characters U+90E8 U+5C4B followed by k, and its colour
\* is ROOM_COLORS[(k-1) mod 8]; a component discarded by the area filter
\* takes neither a number nor a colour.
Thm_C24_NamesAndColours ==
    pc = "analyzeFloorPlan" =>
        LET large == LargeComponents
        IN  /\ Len(detected) = Cardinality(large)
            /\ \A c \in large :
                  RectOf(detected[RankOf(c, large)]) = RectOfPixels(c)
            /\ \A k \in 1..Len(detected) :
                  /\ detected[k].name = [prefix |-> NAME_PREFIX, n |-> k]
                  /\ detected[k].color = ROOM_COLORS[((k - 1) % 8) + 1]

\* nine rooms are returned, the ninth with the first colour again, after a
\* component that comes first in the scan was discarded
Wit_C24 ==
    /\ pc = "analyzeFloorPlan"
    /\ Len(detected) = 9
    /\ detected[9].color = ROOM_COLORS[1]
    /\ detected[9].name.n = 9
    /\ Len(regions) = 10
    /\ belowMinArea(regions[1].area, GridW, GridH)

\* no index comes twice in the queue q
NoRepeats(q) == Cardinality({q[n] : n \in 1..Len(q)}) = Len(q)

\* the state in which the search of the k-th region starts: visited are
\* the pixels of the regions found before it and its start
RegionStart(k) ==
    LET earlier == UNION {{regions[j].queue[n] : n \in 1..Len(regions[j].queue)} :
                             j \in 1..(k - 1)}
        start == regions[k].start
    IN  [visited |-> [i \in Pixels(GridW, GridH) |->
                         IF i \in earlier \/ i = start THEN 1 ELSE 0],
         regionQueue |-> <<start>>, qHead |-> 1,
         minX |-> XOf(start), maxX |-> XOf(start),
         minY |-> YOf(start), maxY |-> YOf(start), area |-> 0]

\* C25: both loops end on every grid.  In the exterior fill and in every
\* component search a pixel index is put in the queue at most once, so no
\* queue holds more than w * h entries; w * h turns of the exterior loop
\* empty its queue and give the grid the fill returned; w * h turns of
\* each component search empty its queue and give the queue, the area and
\* the box recorded for it; the value returned is a list of rooms.
Thm_C25_QueuesBounded ==
    /\ pc \in {"filled", "analyzeFloorPlan"} =>
          \A fill \in {floodRepeat(seedExterior(dilated, GridW, GridH), Neighbours,
                                   GridW * GridH, GridW, GridH)} :
              /\ fill.head > Len(fill.queue)
              /\ fill.labeled = labeled
              /\ NoRepeats(fill.queue)
              /\ Len(fill.queue) <= GridW * GridH
    /\ pc = "analyzeFloorPlan" =>
          /\ \A k \in 1..Len(regions) :
                /\ NoRepeats(regions[k].queue)
                /\ Len(regions[k].queue) <= GridW * GridH
                /\ \A rg \in {regionRepeat(RegionStart(k), labeled, Neighbours,
                                            GridW * GridH, GridW, GridH)} :
                      /\ rg.qHead > Len(rg.regionQueue)
                      /\ rg.regionQueue = regions[k].queue
                      /\ rg.area = regions[k].area
                      /\ <<rg.minX, rg.maxX, rg.minY, rg.maxY>> =
                            <<regions[k].minX, regions[k].maxX,
                              regions[k].minY, regions[k].maxY>>
          /\ DOMAIN detected = 1..Len(detected)

\* the call returned after an exterior fill that took pixels beyond the
\* border and a component search of more than one pixel
Wit_C25 ==
    /\ pc = "analyzeFloorPlan"
    /\ \E i \in Pixels(GridW, GridH) : labeled[i] = EXTERIOR /\ ~OnBorder(i)
    /\ \E k \in 1..Len(regions) : Len(regions[k].queue) > 1

(***************************************************************************)
(* Claims about the size of the working grid                               *)
(***************************************************************************)
\* C26: for every source size the working grid is at most MAX_SIZE wide
\* and high and no larger than the source in either direction, and a
\* source that is at most MAX_SIZE wide and high keeps its size.
Thm_C26_DownscaleCapped ==
    pc = "downscaled" =>
        /\ scaledW <= MAX_SIZE /\ scaledH <= MAX_SIZE
        /\ scaledW <= srcW /\ scaledH <= srcH
        /\ (srcW <= MAX_SIZE /\ srcH <= MAX_SIZE) =>
              (scaledW = srcW /\ scaledH = srcH)

\* a wide source was scaled down to the cap, its height to a tie
Wit_C26 ==
    /\ pc = "downscaled"
    /\ srcW = 928 /\ srcH = 145
    /\ scaledW = MAX_SIZE
    /\ scaledH = 62

(***************************************************************************)
(* Claims about the border of the grid                                     *)
(***************************************************************************)
\* C27: after the exterior fill no pixel of row 0, row h-1, column 0 or
\* column w-1 is Open; so the scan, which starts searches only at pixels
\* with 1 <= x <= w-2 and 1 <= y <= h-2, still searches every component of
\* the pixels left Open, and no room returned touches the border of the
\* grid: its box lies in columns 1..w-2 and rows 1..h-2 and its rectangle
\* strictly inside the canvas.
Thm_C27_BorderClosed ==
    /\ pc \in {"filled", "analyzeFloorPlan"} =>
          \A i \in Pixels(GridW, GridH) : OnBorder(i) => labeled[i] # OPEN
    /\ pc = "analyzeFloorPlan" =>
          /\ \A c \in ComponentsOf(OpenLeft) :
                \E k \in 1..Len(regions) :
                    /\ regions[k].start \in c
                    /\ ~OnBorder(regions[k].start)
                    /\ regions[k].minX >= 1 /\ regions[k].maxX <= GridW - 2
                    /\ regions[k].minY >= 1 /\ regions[k].maxY <= GridH - 2
          /\ \A k \in 1..Len(detected) :
                /\ detected[k].x > 0 /\ detected[k].y > 0
                /\ detected[k].x + detected[k].width < GridW * canvasWidth
                /\ detected[k].y + detected[k].height < GridH * canvasHeight

\* the fill started from Open pixels on all four sides of the grid and a
\* room was returned
Wit_C27 ==
    /\ pc = "analyzeFloorPlan"
    /\ Len(detected) >= 1
    /\ \E i, j \in Pixels(GridW, GridH) :
          /\ dilated[i] = OPEN /\ XOf(i) = 0 /\ YOf(i) \in 1..(GridH - 2)
          /\ dilated[j] = OPEN /\ YOf(j) = 0

Selected(id, list) == id = "null" \/ id \in IdsOf(list)

Orig_C29_SelectionNeverDangles ==
    /\ Selected(selectedRoomId, rooms)
    /\ Selected(selectedFurnitureId, furniture)
    /\ Selected(selectedOpeningId, openings)

\* C30: after every step measurePoints holds at most two points; an
\* addMeasurePoint on two stored points leaves only the new point and
\* measureHeights = [0, 0]; on fewer than two it appends the new point and
\* leaves measureHeights as they were
PointAdded ==
    IF Len(measurePoints) >= 2
    THEN /\ \E pt \in MeasureInputs : measurePoints' = <<pt>>
         /\ measureHeights' = <<0, 0>>
    ELSE /\ \E pt \in MeasureInputs : measurePoints' = Append(measurePoints, pt)
         /\ measureHeights' = measureHeights

Thm_C30_AtMostTwoPoints ==
    [][/\ Len(measurePoints') \in {0, 1, 2}
       /\ (pc' = "addMeasurePoint" => PointAdded)]_vars

\* a second point was added while a height was set, and the height was kept
Wit_C30 ==
    /\ pc = "addMeasurePoint"
    /\ Len(measurePoints) = 2
    /\ measureHeights = <<1, 0>>

====
